---- MODULE Spec2Model ----
(***************************************************************************)
(* A model of the corgi VIN decoder: the positional algorithms, the        *)
(* storage layer with its query cache, the pattern matcher, the decode()   *)
(* orchestrator of src/lib/decode.ts, and the decoder set-up (getDecoder,  *)
(* createDecoder, getDatabasePath).                                        *)
(*                                                                         *)
(* Strings are sequences of one-character strings, so that indexing,       *)
(* substring, trim and toUpperCase are modelled by what they do.           *)
(* Confidence scores are exact rationals scaled by ConfScale.              *)
(***************************************************************************)
EXTENDS Integers, Sequences, FiniteSets, TLC

VARIABLES
    call,         \* the decode() call that is running: arguments, locals, result
    peer,         \* a second decode() call, suspended at one of its awaits
    currentYear,  \* new Date().getFullYear()
    dbCache,      \* VINDecoder.db.queryCache
    pmCache,      \* PatternMatcher.db.queryCache (holds the row objects)
    calls,        \* number of decode() calls started on this decoder
    fnIn,         \* argument of a pure function applied on its own
    fnOut,        \* its result
    sharedDecoderInstance,  \* the module-level singleton of getDecoder
    tasks,        \* the getDecoder / createDecoder calls in flight
    fs            \* the files getDatabasePath looks at and writes

vars == <<call, peer, currentYear, dbCache, pmCache, calls, fnIn, fnOut,
          sharedDecoderInstance, tasks, fs>>

Null == "null"

\* an absent (undefined or null) object, and an absent number
None == [absent |-> TRUE]

NoNumber == {}

----------------------------------------------------------------------------
(* Characters and strings                                                  *)

DigitChars == <<"0","1","2","3","4","5","6","7","8","9">>
UpperChars == <<"A","B","C","D","E","F","G","H","I","J","K","L","M",
                "N","O","P","Q","R","S","T","U","V","W","X","Y","Z">>
LowerChars == <<"a","b","c","d","e","f","g","h","i","j","k","l","m",
                "n","o","p","q","r","s","t","u","v","w","x","y","z">>

Range(s) == {s[i] : i \in DOMAIN s}

IndexOf(s, c) == CHOOSE i \in DOMAIN s : s[i] = c

\* String.prototype.charCodeAt(0) on the characters the model uses
CharCode(c) ==
    IF c \in Range(DigitChars) THEN 47 + IndexOf(DigitChars, c)
    ELSE IF c \in Range(UpperChars) THEN 64 + IndexOf(UpperChars, c)
    ELSE IF c \in Range(LowerChars) THEN 96 + IndexOf(LowerChars, c)
    ELSE CASE c = " " -> 32
           [] c = "*" -> 42
           [] c = "-" -> 45
           [] c = "[" -> 91
           [] c = "]" -> 93
           [] c = "|" -> 124

\* String.fromCharCode on the upper-case letters
FromCharCode(n) == UpperChars[n - 64]

\* String.prototype.toUpperCase, one character
UpperChar(c) ==
    IF c \in Range(LowerChars) THEN UpperChars[IndexOf(LowerChars, c)] ELSE c

ToUpperCase(s) == [i \in DOMAIN s |-> UpperChar(s[i])]

\* String.prototype.substring(from, to), 0-indexed, to exclusive
Min(a, b) == IF a < b THEN a ELSE b
Max(a, b) == IF a > b THEN a ELSE b

Substring(s, from, to) ==
    LET f == Min(Max(from, 0), Len(s))
        t == Min(Max(to, 0), Len(s))
    IN  IF f >= t THEN <<>> ELSE SubSeq(s, f + 1, t)

\* String.prototype.trim: leading and trailing white space removed
RECURSIVE TrimStart(_)
TrimStart(s) ==
    IF s # <<>> /\ Head(s) = " " THEN TrimStart(Tail(s)) ELSE s

RECURSIVE TrimEnd(_)
TrimEnd(s) ==
    IF s # <<>> /\ s[Len(s)] = " " THEN TrimEnd(SubSeq(s, 1, Len(s) - 1)) ELSE s

Trim(s) == TrimEnd(TrimStart(s))

\* /[0-9]/, /[0-9X]/ and /[0-9A-HJ-NPR-Z]/ applied to one character
IsDigit(c) == CharCode(c) >= 48 /\ CharCode(c) <= 57

InCodeRange(c, lo, hi) == CharCode(c) >= CharCode(lo) /\ CharCode(c) <= CharCode(hi)

IsCheckDigitChar(c) == IsDigit(c) \/ c = "X"

IsVinChar(c) ==
    \/ IsDigit(c)
    \/ InCodeRange(c, "A", "H")
    \/ InCodeRange(c, "J", "N")
    \/ c = "P"
    \/ InCodeRange(c, "R", "Z")

----------------------------------------------------------------------------
(* Error codes, categories and severities (src/lib/enums.ts)               *)

ErrorSeverity == [WARNING |-> "warning", ERROR |-> "error", FATAL |-> "fatal"]

ErrorCategory ==
    [VALIDATION |-> "validation", STRUCTURE |-> "structure", LOOKUP |-> "lookup",
     PATTERN |-> "pattern", DATABASE |-> "database"]

ErrorCode ==
    [INVALID_LENGTH |-> "100", INVALID_CHARACTERS |-> "101",
     INVALID_CHECK_DIGIT |-> "200", INVALID_MODEL_YEAR |-> "201",
     WMI_NOT_FOUND |-> "300", NO_PATTERNS_FOUND |-> "400",
     LOW_CONFIDENCE_PATTERNS |-> "401", QUERY_ERROR |-> "501"]

----------------------------------------------------------------------------
(* Positional algorithms                                                   *)

\* InvalidCharTest with one rule for all seventeen positions
InvalidCharTestOneRule(c, i) == ~IsVinChar(c)

\* the reduce() of validateStructure: the 1-indexed positions of the
\* characters that break the rule of their position
InvalidCharTest(c, i) ==
    IF i - 1 = 8 THEN ~IsCheckDigitChar(c)
    ELSE IF i - 1 = 9 THEN ~IsVinChar(c)
    ELSE ~IsVinChar(c)

RECURSIVE InvalidCharsFrom(_, _)
InvalidCharsFrom(v, i) ==
    IF i > Len(v) THEN <<>>
    ELSE (IF InvalidCharTest(v[i], i) THEN <<i>> ELSE <<>>) \o InvalidCharsFrom(v, i + 1)

InvalidChars(v) == InvalidCharsFrom(v, 1)

\* validateStructure without the return that follows the length error
validateStructureNoReturn(v) ==
    (IF Len(v) # 17
     THEN << [code |-> ErrorCode.INVALID_LENGTH, category |-> ErrorCategory.STRUCTURE, severity |-> ErrorSeverity.ERROR] >>
     ELSE <<>>)
    \o (IF Len(InvalidChars(v)) > 0
        THEN << [code |-> ErrorCode.INVALID_CHARACTERS, category |-> ErrorCategory.STRUCTURE,
                 severity |-> ErrorSeverity.ERROR, positions |-> InvalidChars(v)] >>
        ELSE <<>>)

validateStructure(v) ==
    IF Len(v) # 17
    THEN << [code |-> ErrorCode.INVALID_LENGTH, category |-> ErrorCategory.STRUCTURE,
             severity |-> ErrorSeverity.ERROR] >>
    ELSE IF Len(InvalidChars(v)) > 0
    THEN << [code |-> ErrorCode.INVALID_CHARACTERS, category |-> ErrorCategory.STRUCTURE,
             severity |-> ErrorSeverity.ERROR, positions |-> InvalidChars(v)] >>
    ELSE <<>>

\* extractWMI without the extended case
extractWMIBase(v) == Substring(v, 0, 3)

extractWMI(v) ==
    LET baseWMI == Substring(v, 0, 3)
    IN  IF Len(baseWMI) >= 3 /\ baseWMI[3] = "9" /\ Len(v) >= 14
        THEN baseWMI \o Substring(v, 11, 14)
        ELSE baseWMI

\* the seven loops that fill yearMap, in program order; a later set()
\* of the same key replaces the earlier one
YearLoopAH(base) == [c \in {FromCharCode(65 + i) : i \in 0..7} |-> base + (CharCode(c) - 65)]

YearLoopJN(base) == [c \in {FromCharCode(74 + i) : i \in 0..4} |-> base + (CharCode(c) - 74)]

YearLoopP1 ==
    [c \in {FromCharCode(80 + i) : i \in 0..8} \ {"Q", "U"} |-> 1993 + (CharCode(c) - 80)]

YearLoopP2 ==
    [c \in {FromCharCode(80 + i) : i \in 0..8} \cap {"P","R","S","T","V","W","X","Y"} |->
        CASE c = "P" -> 2023 [] c = "R" -> 2024 [] c = "S" -> 2025
          [] c = "T" -> 2026 [] c = "V" -> 2027 [] c = "W" -> 2028
          [] c = "X" -> 2029 [] c = "Y" -> 2030]

YearLoopDigits == [c \in {DigitChars[i + 1] : i \in 1..9} |-> 2030 + (CharCode(c) - 48)]

yearMap ==
    YearLoopDigits @@ YearLoopP2 @@ YearLoopJN(2018) @@ YearLoopAH(2010)
        @@ YearLoopP1 @@ YearLoopJN(1988) @@ YearLoopAH(1980)

determineModelYear(v, thisYear) ==
    LET yearChar == UpperChar(v[10])
    IN  IF yearChar \notin DOMAIN yearMap THEN None
        ELSE LET baseYear == yearMap[yearChar]
                 nextYear == thisYear + 1
                 adjustedYear == IF baseYear > nextYear THEN baseYear - 30 ELSE baseYear
             IN  [year |-> adjustedYear, source |-> "position", confidence |-> 1]

weights == <<8, 7, 6, 5, 4, 3, 2, 10, 0, 9, 8, 7, 6, 5, 4, 3, 2>>

\* transliterate that numbers the letters 1 to 9 in alphabetical order
transliterateAlphabetical(ch) ==
    LET c == UpperChar(ch)
    IN  IF IsDigit(c) THEN CharCode(c) - 48
        ELSE IF InCodeRange(c, "A", "Z") THEN ((CharCode(c) - 65) % 9) + 1
        ELSE 0

transliterate(ch) ==
    LET c == UpperChar(ch)
    IN  IF IsDigit(c) THEN CharCode(c) - 48
        ELSE IF InCodeRange(c, "A", "Z")
        THEN CASE c = "A" -> 1 [] c = "B" -> 2 [] c = "C" -> 3 [] c = "D" -> 4
               [] c = "E" -> 5 [] c = "F" -> 6 [] c = "G" -> 7 [] c = "H" -> 8
               [] c = "J" -> 1 [] c = "K" -> 2 [] c = "L" -> 3 [] c = "M" -> 4
               [] c = "N" -> 5 [] c = "P" -> 7 [] c = "R" -> 9 [] c = "S" -> 2
               [] c = "T" -> 3 [] c = "U" -> 4 [] c = "V" -> 5 [] c = "W" -> 6
               [] c = "X" -> 7 [] c = "Y" -> 8 [] c = "Z" -> 9
               [] OTHER -> 0
        ELSE 0

RECURSIVE WeightedSum(_, _)
WeightedSum(v, idx) ==
    IF idx > Len(v) THEN 0
    ELSE transliterate(v[idx]) * weights[idx] + WeightedSum(v, idx + 1)

validateCheckDigit(v) ==
    LET calculated == WeightedSum(v, 1) % 11
        expected == IF calculated = 10 THEN "X" ELSE DigitChars[calculated + 1]
        actual == UpperChar(v[9])
    IN  [position |-> 9, actual |-> actual, expected |-> expected,
         isValid |-> (actual = expected)]

----------------------------------------------------------------------------
(* Pattern matcher (PatternMatcher)                                        *)

\* the number that stands for confidence 1.0; every score the matcher can
\* produce (tenths over at most 14 pattern units, halved) is a whole number
ConfScale == 7207200

\* pattern.split('|'): the part before the first '|' and the parts after it
RECURSIVE FirstIndexFrom(_, _, _)
FirstIndexFrom(s, c, i) ==
    IF i > Len(s) THEN 0
    ELSE IF s[i] = c THEN i
    ELSE FirstIndexFrom(s, c, i + 1)

HasPipe(p) == FirstIndexFrom(p, "|", 1) # 0

ActualPattern(p) ==
    IF HasPipe(p) THEN SubSeq(p, 1, FirstIndexFrom(p, "|", 1) - 1) ELSE p

\* metadataParts[0]
VisPattern(p) ==
    LET rest == SubSeq(p, FirstIndexFrom(p, "|", 1) + 1, Len(p))
    IN  IF HasPipe(rest) THEN SubSeq(rest, 1, FirstIndexFrom(rest, "|", 1) - 1) ELSE rest

\* s[i] of JavaScript, 0-indexed, undefined (Null) out of range
CharAt(s, i) == IF i >= 0 /\ i < Len(s) THEN s[i + 1] ELSE Null

\* ClassLoop without the start-end ranges: every character of the content
\* is an individual character
RECURSIVE ClassLoopNoRange(_, _, _)
ClassLoopNoRange(char, content, i) ==
    IF i >= Len(content) THEN FALSE
    ELSE IF char = CharAt(content, i) THEN TRUE
    ELSE ClassLoopNoRange(char, content, i + 1)

\* the while loop of isCharInRange over the content of a [...] class
RECURSIVE ClassLoop(_, _, _)
ClassLoop(char, content, i) ==
    IF i >= Len(content) THEN FALSE
    ELSE IF i + 2 < Len(content) /\ CharAt(content, i + 1) = "-"
    THEN (IF /\ CharCode(char) >= CharCode(CharAt(content, i))
             /\ CharCode(char) <= CharCode(CharAt(content, i + 2))
          THEN TRUE
          ELSE ClassLoop(char, content, i + 3))
    ELSE (IF char = CharAt(content, i) THEN TRUE
          ELSE ClassLoop(char, content, i + 1))

isCharInRange(char, pattern) ==
    IF pattern = <<>> \/ pattern[1] # "[" \/ pattern[Len(pattern)] # "]"
    THEN pattern = <<char>> \/ pattern = <<"*">>
    ELSE ClassLoop(char, SubSeq(pattern, 2, Len(pattern) - 1), 0)

\* the while loop of matchesSimplePattern; pi and ii are 0-indexed
RECURSIVE SimpleLoop(_, _, _, _)
SimpleLoop(input, pattern, pi, ii) ==
    IF ~(pi < Len(pattern) /\ ii < Len(input))
    THEN \/ pi >= Len(pattern)
         \/ (pi = Len(pattern) - 1 /\ CharAt(pattern, pi) = "*")
    ELSE LET patternChar == CharAt(pattern, pi)
             inputChar == CharAt(input, ii)
             closeBracket == FirstIndexFrom(pattern, "]", pi + 1) - 1
         IN  IF patternChar = "["
             THEN IF closeBracket = -1 THEN FALSE
                  ELSE IF ~isCharInRange(inputChar, Substring(pattern, pi, closeBracket + 1))
                  THEN FALSE
                  ELSE SimpleLoop(input, pattern, closeBracket + 1, ii + 1)
             ELSE IF patternChar = "*"
             THEN IF pi = Len(pattern) - 1 THEN TRUE
                  ELSE SimpleLoop(input, pattern, pi + 1, ii + 1)
             ELSE IF inputChar # patternChar THEN FALSE
             ELSE SimpleLoop(input, pattern, pi + 1, ii + 1)

matchesSimplePattern(input, pattern) == SimpleLoop(input, pattern, 0, 0)

matchesPattern(input, pattern) ==
    IF input = <<>> \/ pattern = <<>> THEN FALSE
    ELSE IF HasPipe(pattern) /\ Len(ActualPattern(pattern)) = 5
    THEN LET expectedPlantCode == CharAt(VisPattern(pattern), 1)
         IN  expectedPlantCode = "*" \/ CharAt(input, 0) = expectedPlantCode
    ELSE matchesSimplePattern(input, ActualPattern(pattern))

\* the scoring loop of calculateConfidence: the tenths accumulated
\* (exactMatches * 1.0 + classMatches + wildcardMatches * 0.5) and totalLength
RECURSIVE ScoreLoop(_, _, _, _, _, _)
ScoreLoop(input, pattern, pi, ii, tenths, total) ==
    IF ~(pi < Len(pattern) /\ ii < Len(input))
    THEN [tenths |-> tenths, total |-> total]
    ELSE LET patternChar == CharAt(pattern, pi)
             inputChar == CharAt(input, ii)
             closeBracket == FirstIndexFrom(pattern, "]", pi + 1) - 1
             content == Substring(pattern, pi + 1, closeBracket)
         IN  IF patternChar = "["
             THEN IF closeBracket = -1 THEN [tenths |-> tenths, total |-> total]
                  ELSE ScoreLoop(input, pattern, closeBracket + 1, ii + 1,
                                 tenths + (IF "-" \in Range(content) THEN 7 ELSE 8),
                                 total + 1)
             ELSE IF patternChar = "*"
             THEN ScoreLoop(input, pattern, pi + 1, ii + 1, tenths + 5, total + 1)
             ELSE ScoreLoop(input, pattern, pi + 1, ii + 1,
                            tenths + (IF patternChar = inputChar THEN 10 ELSE 0),
                            total + 1)

\* Math.min(1, Math.max(0, score)) on the scaled score
Clamp(x) == Min(ConfScale, Max(0, x))

\* calculateConfidence without the matchesPattern test of line 300
calculateConfidenceNoMatchTest(pattern, input) ==
    IF pattern = <<>> \/ input = <<>> THEN 0
    ELSE IF HasPipe(pattern) /\ Len(ActualPattern(pattern)) = 5
    THEN LET expectedPlantCode == CharAt(VisPattern(pattern), 1)
         IN  IF expectedPlantCode = "*" THEN (ConfScale * 8) \div 10
             ELSE IF <<expectedPlantCode>> = input THEN ConfScale
             ELSE 0
    ELSE LET sc == ScoreLoop(input, ActualPattern(pattern), 0, 0, 0, 0)
         IN  IF sc.total = 0 THEN 0 ELSE Clamp((sc.tenths * ConfScale) \div (10 * sc.total))

calculateConfidence(pattern, input) ==
    IF pattern = <<>> \/ input = <<>> THEN 0
    ELSE IF HasPipe(pattern) /\ Len(ActualPattern(pattern)) = 5
    THEN LET expectedPlantCode == CharAt(VisPattern(pattern), 1)
         IN  IF expectedPlantCode = "*" THEN (ConfScale * 8) \div 10
             ELSE IF <<expectedPlantCode>> = input THEN ConfScale
             ELSE 0
    ELSE IF ~matchesPattern(input, ActualPattern(pattern)) THEN 0
    ELSE LET sc == ScoreLoop(input, ActualPattern(pattern), 0, 0, 0, 0)
         IN  Clamp((sc.tenths * ConfScale) \div (10 * sc.total))

\* Array.prototype.sort with a comparator: a stable insertion sort, where
\* before holds the pairs (a, b) for which the comparator returns a
\* negative number
InsertSorted(t, x, before) ==
    LET later == {j \in DOMAIN t : <<x, t[j]>> \in before}
        p == IF later = {} THEN Len(t) + 1
             ELSE CHOOSE j \in later : \A k \in later : j <= k
    IN  SubSeq(t, 1, p - 1) \o <<x>> \o SubSeq(t, p, Len(t))

StableSort(s, before) ==
    LET F[i \in 0..Len(s)] ==
            IF i = 0 THEN <<>> ELSE InsertSorted(F[i - 1], s[i], before)
    IN  F[Len(s)]

----------------------------------------------------------------------------
(* The reference database behind the adapter: a small vPIC extract         *)

W_1HG == <<"1","H","G">>
W_1H9004 == <<"1","H","9","0","0","4">>

\* Wmi joined with Manufacturer, Make, Country, VehicleType (getWMI's SQL)
WmiTable ==
    (W_1HG :> [code |-> W_1HG, manufacturer |-> "AMERICAN HONDA MOTOR CO., INC.",
               make |-> "HONDA", country |-> "UNITED STATES (USA)",
               vehicleType |-> "Passenger Car", region |-> "OTHER"])
    @@
    (W_1H9004 :> [code |-> W_1H9004, manufacturer |-> "HME, INC.",
                  make |-> Null, country |-> "UNITED STATES (USA)",
                  vehicleType |-> "Truck", region |-> "OTHER"])

\* Wmi_VinSchema joined with VinSchema
SchemaLinks ==
    << [Wmi |-> W_1HG, SchemaId |-> 1, SchemaName |-> "Honda Accord 2001-2005",
        YearFrom |-> 2001, YearTo |-> {2005}],
       [Wmi |-> W_1HG, SchemaId |-> 2, SchemaName |-> "Honda 2003 on",
        YearFrom |-> 2003, YearTo |-> NoNumber],
       [Wmi |-> W_1H9004, SchemaId |-> 3, SchemaName |-> "HME 2000 on",
        YearFrom |-> 2000, YearTo |-> NoNumber],
       [Wmi |-> W_1H9004, SchemaId |-> 4, SchemaName |-> "HME 1990-1999",
        YearFrom |-> 1990, YearTo |-> {1999}],
       [Wmi |-> W_1H9004, SchemaId |-> 5, SchemaName |-> "HME 2024",
        YearFrom |-> 2024, YearTo |-> {2024}],
       [Wmi |-> W_1HG, SchemaId |-> 6, SchemaName |-> "Honda 1999",
        YearFrom |-> 1999, YearTo |-> {1999}],
       [Wmi |-> W_1HG, SchemaId |-> 7, SchemaName |-> "Honda 1999 export",
        YearFrom |-> 1999, YearTo |-> {1999}] >>

\* Pattern joined with Element, followed by the Make rows of the UNION ALL
PatternTable ==
    << [VinSchemaId |-> 1, Pattern |-> <<"C","M","8","2","*">>, ElementName |-> "Model",
        LookupTable |-> "Model", AttributeId |-> "1861", ElementWeight |-> 90],
       [VinSchemaId |-> 2, Pattern |-> <<"C","M","[","5","-","8","]","*">>, ElementName |-> "Model",
        LookupTable |-> "Model", AttributeId |-> "1862", ElementWeight |-> 90],
       [VinSchemaId |-> 1, Pattern |-> <<"C","M","8","*","*","*">>, ElementName |-> "Body Class",
        LookupTable |-> "BodyStyle", AttributeId |-> "3", ElementWeight |-> 80],
       [VinSchemaId |-> 2, Pattern |-> <<"C","M","[","7","8","]","*">>, ElementName |-> "Body Class",
        LookupTable |-> "BodyStyle", AttributeId |-> "3", ElementWeight |-> 80],
       [VinSchemaId |-> 1, Pattern |-> <<"*","*","*","*","*","|","*","A">>, ElementName |-> "Plant Country",
        LookupTable |-> Null, AttributeId |-> "UNITED STATES (USA)", ElementWeight |-> 50],
       [VinSchemaId |-> 2, Pattern |-> <<"*","*","*","*","*","|","*","A">>, ElementName |-> "Plant City",
        LookupTable |-> Null, AttributeId |-> "MARYSVILLE", ElementWeight |-> 40],
       [VinSchemaId |-> 1, Pattern |-> <<"*","*","*","*","*","*">>, ElementName |-> "Fuel Type - Primary",
        LookupTable |-> Null, AttributeId |-> "Gasoline", ElementWeight |-> 60],
       [VinSchemaId |-> 2, Pattern |-> <<"C","M","8","2","6","*">>, ElementName |-> "Fuel Type - Secondary",
        LookupTable |-> Null, AttributeId |-> "Electric", ElementWeight |-> 60],
       [VinSchemaId |-> 2, Pattern |-> <<"C","M","8","2","6","3">>, ElementName |-> "Fuel Type - Primary",
        LookupTable |-> Null, AttributeId |-> "Diesel", ElementWeight |-> 60],
       [VinSchemaId |-> 1, Pattern |-> <<"C","M","*","*","*","*">>, ElementName |-> "Body Class",
        LookupTable |-> "vNCSABodyType", AttributeId |-> "9", ElementWeight |-> 80],
       [VinSchemaId |-> 1, Pattern |-> <<"C","M","8","2","*","*">>, ElementName |-> "Engine Model",
        LookupTable |-> "EngineModel", AttributeId |-> "77", ElementWeight |-> 70],
       [VinSchemaId |-> 1, Pattern |-> <<"C","M","8","[","1","-","3","]">>, ElementName |-> "Doors",
        LookupTable |-> Null, AttributeId |-> "", ElementWeight |-> 30],
       [VinSchemaId |-> 3, Pattern |-> <<"*","*","*","*","*","|","*","*">>, ElementName |-> "Plant Country",
        LookupTable |-> "Country", AttributeId |-> "6", ElementWeight |-> 50],
       [VinSchemaId |-> 5, Pattern |-> <<"C","M","8","*","*","*">>, ElementName |-> "Body Class",
        LookupTable |-> "BodyStyle", AttributeId |-> "3", ElementWeight |-> 80],
       [VinSchemaId |-> 5, Pattern |-> <<"C","M","8","2","*","*">>, ElementName |-> "Body Class",
        LookupTable |-> "BodyStyle", AttributeId |-> "3", ElementWeight |-> 80],
       [VinSchemaId |-> 5, Pattern |-> <<"C","M","*","*","*","*">>, ElementName |-> "Body Class",
        LookupTable |-> "BodyStyle", AttributeId |-> "7", ElementWeight |-> 85],
       [VinSchemaId |-> 5, Pattern |-> <<"C","M","9","*">>, ElementName |-> "Doors",
        LookupTable |-> Null, AttributeId |-> "4", ElementWeight |-> 30],
       [VinSchemaId |-> 6, Pattern |-> <<"C","M","8","2","*","*">>, ElementName |-> "Model",
        LookupTable |-> "Model", AttributeId |-> "1861", ElementWeight |-> 90],
       [VinSchemaId |-> 6, Pattern |-> <<"C","M","*","*","*","*">>, ElementName |-> "Model",
        LookupTable |-> "Model", AttributeId |-> "1861", ElementWeight |-> 95],
       [VinSchemaId |-> 7, Pattern |-> <<"C","M","8","*","*","*">>, ElementName |-> "Model",
        LookupTable |-> "Model", AttributeId |-> "1862", ElementWeight |-> 90],
       [VinSchemaId |-> 1, Pattern |-> <<"C","M","8","2","*">>, ElementName |-> "Make",
        LookupTable |-> Null, AttributeId |-> "HONDA", ElementWeight |-> 100] >>

\* the lookup tables that exist, Id -> Name; EngineModel is not in the file
LookupData ==
    [Model |-> ("1861" :> "Accord") @@ ("1862" :> "Accord Crosstour"),
     BodyStyle |-> ("3" :> "Coupe"),
     Country |-> ("6" :> "UNITED STATES (USA)")]

\* the messages of the errors the adapter's exec() throws
FailureMessages == {"database disk image is malformed", "database is locked"}

\* what adapter.exec returns for the SQL of getWMI, as get() turns it into an object
ExecGetWMI(wmi) == IF wmi \in DOMAIN WmiTable THEN WmiTable[wmi] ELSE None

SchemaValid(link, wmi, year) ==
    /\ link.Wmi = wmi
    /\ year >= link.YearFrom
    /\ (link.YearTo = NoNumber \/ \A yearTo \in link.YearTo : year <= yearTo)

RECURSIVE SchemasFrom(_, _, _)
SchemasFrom(i, wmi, year) ==
    IF i > Len(SchemaLinks) THEN <<>>
    ELSE (IF SchemaValid(SchemaLinks[i], wmi, year)
          THEN << [SchemaId |-> SchemaLinks[i].SchemaId,
                   SchemaName |-> SchemaLinks[i].SchemaName] >>
          ELSE <<>>) \o SchemasFrom(i + 1, wmi, year)

ExecGetValidSchemas(wmi, year) == SchemasFrom(1, wmi, year)

SchemaNameOf(id) ==
    LET l == CHOOSE l \in Range(SchemaLinks) : l.SchemaId = id IN l.SchemaName

RECURSIVE PatternsFrom(_, _)
PatternsFrom(i, schemaIds) ==
    IF i > Len(PatternTable) THEN <<>>
    ELSE (IF PatternTable[i].VinSchemaId \in Range(schemaIds)
          THEN << [Pattern |-> PatternTable[i].Pattern,
                   ElementName |-> PatternTable[i].ElementName,
                   LookupTable |-> PatternTable[i].LookupTable,
                   AttributeId |-> PatternTable[i].AttributeId,
                   SchemaName |-> SchemaNameOf(PatternTable[i].VinSchemaId),
                   ElementWeight |-> PatternTable[i].ElementWeight,
                   ResolvedValue |-> Null] >>
          ELSE <<>>) \o PatternsFrom(i + 1, schemaIds)

ExecGetPatterns(schemaIds) == PatternsFrom(1, schemaIds)

\* the Id -> Name map lookupValues builds from the rows of its query
ExecLookup(tableName, ids) ==
    [id \in Range(ids) \cap DOMAIN LookupData[tableName] |-> LookupData[tableName][id]]

----------------------------------------------------------------------------
(* Schema / pattern resolver (getRawPatternMatches, getPatternMatches)     *)

LOOKUP_TABLES ==
    {"DriveType", "EngineModel", "EngineConfiguration", "FuelType", "Transmission",
     "BodyStyle", "GrossVehicleWeightRating", "GrossVehicleWeightRatingTo",
     "GrossVehicleWeightRatingFrom", "ChargerLevel", "ElectrificationLevel",
     "EVDriveUnit", "BatteryType", "Make", "Model", "Series", "Trim", "Turbo",
     "DaytimeRunningLight", "Plant", "Country", "DestinationMarket", "Conversion"}

\* JavaScript truthiness of a string or null
Truthy(x) == x # Null /\ x # ""

\* elementName.toLowerCase().includes('plant') on the element names of vPIC
IsPlantElement(name) == name \in {"Plant Country", "Plant City", "Plant State", "Plant Company Name"}

\* step 3: the filter on lookup tables, with includes('vNCSA') on the table
\* names of the database
KeepRow(p) ==
    IF Truthy(p.LookupTable)
    THEN ~(\/ p.LookupTable \notin LOOKUP_TABLES
           \/ p.LookupTable \in {"vNCSABodyType", "vNCSAMake", "vNCSAModel"})
    ELSE TRUE

\* Array.prototype.filter, and the distinct values of a sequence in order
RECURSIVE FilterKeep(_)
FilterKeep(rows) ==
    IF rows = <<>> THEN <<>>
    ELSE (IF KeepRow(Head(rows)) THEN <<Head(rows)>> ELSE <<>>) \o FilterKeep(Tail(rows))

RECURSIVE Distinct(_)
Distinct(s) ==
    IF s = <<>> THEN <<>>
    ELSE LET d == Distinct(SubSeq(s, 1, Len(s) - 1))
         IN  IF s[Len(s)] \in Range(d) THEN d ELSE Append(d, s[Len(s)])

RECURSIVE TablesFrom(_)
TablesFrom(rows) ==
    IF rows = <<>> THEN <<>>
    ELSE (IF KeepRow(Head(rows)) /\ Truthy(Head(rows).LookupTable)
          THEN <<Head(rows).LookupTable>> ELSE <<>>) \o TablesFrom(Tail(rows))

\* step 4: the keys of patternsByLookupTable, in insertion order
TablesOf(rows) == Distinct(TablesFrom(rows))

\* step 4: rows without a lookup table take the raw attribute id
SetRawValues(rows) ==
    [i \in DOMAIN rows |->
        IF KeepRow(rows[i]) /\ ~Truthy(rows[i].LookupTable)
        THEN [rows[i] EXCEPT !.ResolvedValue = rows[i].AttributeId]
        ELSE rows[i]]

RECURSIVE IdsFrom(_, _)
IdsFrom(rows, tableName) ==
    IF rows = <<>> THEN <<>>
    ELSE (IF KeepRow(Head(rows)) /\ Head(rows).LookupTable = tableName
          THEN <<Head(rows).AttributeId>> ELSE <<>>) \o IdsFrom(Tail(rows), tableName)

\* step 5: the unique attribute ids of a table's rows
AttributeIdsOf(rows, tableName) == Distinct(IdsFrom(rows, tableName))

\* step 5: lookupMap.get(attributeId) || pattern.AttributeId on a table's rows
\* ApplyLookup without the '|| pattern.AttributeId' of line 544
ApplyLookupNoFallback(rows, tableName, lookupMap) ==
    [i \in DOMAIN rows |->
        IF KeepRow(rows[i]) /\ rows[i].LookupTable = tableName
        THEN [rows[i] EXCEPT !.ResolvedValue =
                 IF rows[i].AttributeId \in DOMAIN lookupMap
                 THEN lookupMap[rows[i].AttributeId]
                 ELSE Null]
        ELSE rows[i]]

ApplyLookup(rows, tableName, lookupMap) ==
    [i \in DOMAIN rows |->
        IF KeepRow(rows[i]) /\ rows[i].LookupTable = tableName
        THEN [rows[i] EXCEPT !.ResolvedValue =
                 IF rows[i].AttributeId \in DOMAIN lookupMap
                    /\ Truthy(lookupMap[rows[i].AttributeId])
                 THEN lookupMap[rows[i].AttributeId]
                 ELSE rows[i].AttributeId]
        ELSE rows[i]]

RECURSIVE RowsOfTables(_, _)
RowsOfTables(rows, tables) ==
    IF tables = <<>> THEN <<>>
    ELSE SelectSeq(rows, LAMBDA r : r.LookupTable = Head(tables))
            \o RowsOfTables(rows, Tail(tables))

\* step 6: [...patternsWithoutLookup, ...Object.values(patternsByLookupTable).flat()]
CombineResolved(rows) ==
    LET kept == FilterKeep(rows)
    IN  SelectSeq(kept, LAMBDA r : ~Truthy(r.LookupTable))
            \o RowsOfTables(kept, TablesOf(rows))

\* String.prototype.localeCompare on pattern strings: punctuation sorts before
\* digits and digits before letters in the root collation
CollationRank(c) ==
    IndexOf(<<"-", "[", "]", "*", "|", "0","1","2","3","4","5","6","7","8","9",
              "A","B","C","D","E","F","G","H","I","J","K","L","M",
              "N","O","P","Q","R","S","T","U","V","W","X","Y","Z">>, c)

RECURSIVE LocaleBefore(_, _)
LocaleBefore(a, b) ==
    IF b = <<>> THEN FALSE
    ELSE IF a = <<>> THEN TRUE
    ELSE IF Head(a) = Head(b) THEN LocaleBefore(Tail(a), Tail(b))
    ELSE CollationRank(Head(a)) < CollationRank(Head(b))

\* step 7: ElementWeight DESC, then Pattern ASC
ResolvedBefore(a, b) ==
    IF a.ElementWeight # b.ElementWeight
    THEN b.ElementWeight - a.ElementWeight < 0
    ELSE LocaleBefore(a.Pattern, b.Pattern)

SortResolved(rows) ==
    LET all == CombineResolved(rows)
    IN  StableSort(all, {pr \in Range(all) \X Range(all) : ResolvedBefore(pr[1], pr[2])})

\* the comparator (a, b) => b.confidence - a.confidence
ByConfidence(s) == {pr \in Range(s) \X Range(s) : pr[2].confidence - pr[1].confidence < 0}

\* step 8: the schema of the highest-confidence Model row
PrimarySchema(sorted, vds, vis) ==
    LET models == SelectSeq(sorted, LAMBDA r : r.ElementName = "Model")
        scored == [i \in DOMAIN models |->
                     [SchemaName |-> models[i].SchemaName,
                      confidence |-> calculateConfidence(models[i].Pattern, vds \o vis)]]
        modelPatterns == StableSort(scored, ByConfidence(scored))
    IN  IF Len(modelPatterns) > 0 THEN modelPatterns[1].SchemaName ELSE Null

\* step 9: positions covered by a pattern
PositionsOf(pattern) ==
    LET actualPattern == ActualPattern(pattern)
        startPos == IF HasPipe(pattern) THEN 9 ELSE 3
    IN  [i \in 1..Len(actualPattern) |-> startPos + (i - 1)]

\* RawMatch without the schema test of lines 594-600: a plant row keeps its
\* base confidence whatever its schema
RawMatchAnySchema(row, primarySchema, vds, vis) ==
    LET isVISPattern == HasPipe(row.Pattern)
        baseConfidence ==
            IF isVISPattern
            THEN calculateConfidence(row.Pattern, Substring(vis, 1, 2))
            ELSE calculateConfidence(row.Pattern, vds \o vis)
    IN  [element |-> row.ElementName,
         attributeId |-> IF Truthy(row.ResolvedValue) THEN row.ResolvedValue ELSE Null,
         value |-> IF Truthy(row.ResolvedValue) THEN row.ResolvedValue ELSE Null,
         confidence |-> baseConfidence,
         positions |-> PositionsOf(row.Pattern),
         schema |-> row.SchemaName,
         lookupTable |-> row.LookupTable,
         elementWeight |-> row.ElementWeight,
         patternType |-> IF isVISPattern THEN "VIS" ELSE "VDS",
         rawPattern |-> row.Pattern]

\* step 9: one RawPatternMatch
RawMatch(row, primarySchema, vds, vis) ==
    LET isVISPattern == HasPipe(row.Pattern)
        baseConfidence ==
            IF isVISPattern
            THEN calculateConfidence(row.Pattern, Substring(vis, 1, 2))
            ELSE calculateConfidence(row.Pattern, vds \o vis)
        confidence ==
            IF IsPlantElement(row.ElementName)
            THEN IF Truthy(primarySchema)
                 THEN (IF row.SchemaName = primarySchema THEN baseConfidence ELSE 0)
                 ELSE baseConfidence \div 2
            ELSE baseConfidence
    IN  [element |-> row.ElementName,
         attributeId |-> IF Truthy(row.ResolvedValue) THEN row.ResolvedValue ELSE Null,
         value |-> IF Truthy(row.ResolvedValue) THEN row.ResolvedValue ELSE Null,
         confidence |-> confidence,
         positions |-> PositionsOf(row.Pattern),
         schema |-> row.SchemaName,
         lookupTable |-> row.LookupTable,
         elementWeight |-> row.ElementWeight,
         patternType |-> IF isVISPattern THEN "VIS" ELSE "VDS",
         rawPattern |-> row.Pattern]

\* steps 6 to 9 of getRawPatternMatches, on the row objects after resolution
RawPatternMatches(rows, vds, vis) ==
    LET sorted == SortResolved(rows)
        primarySchema == PrimarySchema(sorted, vds, vis)
    IN  [i \in DOMAIN sorted |-> RawMatch(sorted[i], primarySchema, vds, vis)]

\* PassesThreshold with the bar of 0.5 for every element
PassesThresholdUniform(m) == m.confidence * 10 > ConfScale * 5

\* PassesThreshold with the plant bar for every element
PassesThresholdLenient(m) == m.confidence * 10 > ConfScale * 3

\* getPatternMatches: the confidence filter
PassesThreshold(m) ==
    IF IsPlantElement(m.element)
    THEN m.confidence * 10 > ConfScale * 3
    ELSE m.confidence * 10 > ConfScale * 5

\* MatchBefore without the elementWeight comparison
MatchBeforeByConfidence(a, b) == b.confidence - a.confidence < 0

\* getPatternMatches: elementWeight DESC, then confidence DESC
MatchBefore(a, b) ==
    IF a.elementWeight # b.elementWeight
    THEN b.elementWeight - a.elementWeight < 0
    ELSE b.confidence - a.confidence < 0

SortMatches(ms) == StableSort(ms, {pr \in Range(ms) \X Range(ms) : MatchBefore(pr[1], pr[2])})

DedupKey(m) == <<m.value, m.positions, m.schema>>

RECURSIVE UniqueMatches(_, _)
UniqueMatches(ms, seen) ==
    IF ms = <<>> THEN <<>>
    ELSE IF DedupKey(Head(ms)) \in seen THEN UniqueMatches(Tail(ms), seen)
    ELSE <<Head(ms)>> \o UniqueMatches(Tail(ms), seen \cup {DedupKey(Head(ms))})

RECURSIVE ConcatGroups(_, _)
ConcatGroups(ms, elements) ==
    IF elements = <<>> THEN <<>>
    ELSE UniqueMatches(SortMatches(SelectSeq(ms, LAMBDA m : m.element = Head(elements))), {})
         \o ConcatGroups(ms, Tail(elements))

getPatternMatches(rawMatches) ==
    LET transformedMatches == SelectSeq(rawMatches, PassesThreshold)
        elements == Distinct([i \in DOMAIN transformedMatches |-> transformedMatches[i].element])
    IN  ConcatGroups(transformedMatches, elements)

----------------------------------------------------------------------------
(* Assembly of the sub-records (extractVehicleInfo, extractPlantInfo,      *)
(* extractEngineInfo)                                                      *)

\* coerceBodyStyle on the body-class values the database can produce:
\* 'Coupe' is a key of BODY_STYLE_MAP; the raw id '3' is a substring of the
\* key '3-Door Hatchback', the first key the fuzzy match finds
coerceBodyStyle(bodyStyle) ==
    CASE bodyStyle = "Coupe" -> "Coupe"
      [] bodyStyle = "3" -> "Hatchback"
      [] OTHER -> "Other"

\* the switch of extractVehicleInfo applied to one pattern
VehicleStep(info, p) ==
    IF ~Truthy(p.value) THEN info
    ELSE CASE p.element = "Make" -> [info EXCEPT !.make = p.value]
           [] p.element = "Series" -> [info EXCEPT !.series = p.value]
           [] p.element \in {"Trim", "Trim Level"} -> [info EXCEPT !.trim = p.value]
           [] p.element \in {"Body Class", "Body Style"} ->
                  [info EXCEPT !.bodyStyle = coerceBodyStyle(p.value)]
           [] p.element = "Drive Type" -> [info EXCEPT !.driveType = p.value]
           [] p.element = "Fuel Type - Primary" -> [info EXCEPT !.fuelType = p.value]
           [] p.element = "Fuel Type - Secondary" -> [info EXCEPT !.fuelType = "Hybrid"]
           [] p.element = "Transmission" -> [info EXCEPT !.transmission = p.value]
           [] p.element = "Doors" -> [info EXCEPT !.doors = p.value]
           [] OTHER -> info

RECURSIVE VehicleFold(_, _)
VehicleFold(info, patterns) ==
    IF patterns = <<>> THEN info
    ELSE VehicleFold(VehicleStep(info, Head(patterns)), Tail(patterns))

extractVehicleInfo(patterns, wmiInfo, modelYear) ==
    LET modelPatterns ==
            SortMatches(SelectSeq(patterns, LAMBDA p : p.element = "Model" /\ Truthy(p.value)))
        info == [make |-> IF Truthy(wmiInfo.make) THEN wmiInfo.make ELSE "",
                 model |-> IF Len(modelPatterns) > 0 THEN modelPatterns[1].value ELSE "",
                 year |-> modelYear.year,
                 manufacturer |-> wmiInfo.manufacturer,
                 series |-> Null, trim |-> Null, bodyStyle |-> Null, driveType |-> Null,
                 fuelType |-> Null, transmission |-> Null, doors |-> Null]
    IN  VehicleFold(info, patterns)

\* the last truthy value of the patterns of an element, Null when there is none
RECURSIVE LastValue(_, _, _)
LastValue(patterns, elements, acc) ==
    IF patterns = <<>> THEN acc
    ELSE LastValue(Tail(patterns), elements,
                   IF Truthy(Head(patterns).value) /\ Head(patterns).element \in elements
                   THEN Head(patterns).value ELSE acc)

extractPlantInfo(patterns, v) ==
    LET country == LastValue(patterns, {"Plant Country", "plant country"}, Null)
        city == LastValue(patterns, {"Plant City", "plant city"}, Null)
        manufacturer == LastValue(patterns, {"Plant Company Name", "plant company name"}, Null)
    IN  IF Truthy(country)
        THEN [country |-> country, city |-> city, manufacturer |-> manufacturer,
              code |-> CharAt(v, 10)]
        ELSE None

extractEngineInfo(patterns) ==
    LET info == [model |-> LastValue(patterns, {"Engine Model"}, Null),
                 cylinders |-> LastValue(patterns, {"Engine Number of Cylinders", "Cylinders"}, Null),
                 displacement |-> LastValue(patterns, {"Displacement (L)"}, Null),
                 power |-> LastValue(patterns, {"Engine Brake (hp) From", "Engine Power (KW)"}, Null),
                 fuel |-> LastValue(patterns, {"Fuel Type - Primary", "Fuel Type"}, Null)]
        hasEngineInfo == \E f \in DOMAIN info : info[f] # Null
    IN  IF hasEngineInfo THEN info ELSE None

\* findPrimarySchema of the orchestrator
findPrimarySchema(patterns) ==
    LET models == SelectSeq(patterns, LAMBDA p : p.element = "Model")
        modelPatterns == StableSort(models, ByConfidence(models))
    IN  IF Len(modelPatterns) > 0 THEN modelPatterns[1].schema ELSE Null

RECURSIVE SumConfidence(_)
SumConfidence(patterns) ==
    IF patterns = <<>> THEN 0
    ELSE Head(patterns).confidence + SumConfidence(Tail(patterns))

----------------------------------------------------------------------------
(* Storage layer: VPICDatabase.get / query with their cache                *)

\* the cache check that get() and query() make before calling adapter.exec
IssueQuery(cache, key) ==
    IF key \in DOMAIN cache
    THEN [hit |-> TRUE, key |-> key, value |-> cache[key]]
    ELSE [hit |-> FALSE, key |-> key, value |-> None]

\* queryCache.set(cacheKey, value)
\* CacheSet that keeps only results with rows
CacheSetRowsOnly(cache, key, value) ==
    IF (IF key[1] = "getWMI" THEN value = None ELSE DOMAIN value = {})
    THEN cache ELSE (key :> value) @@ cache

CacheSet(cache, key, value) == (key :> value) @@ cache

\* the outcomes of adapter.exec: Null (it returns) or the message of the
\* error it throws; a cached answer involves no exec
ExecOutcomes(pending) ==
    IF pending.hit THEN {Null} ELSE {Null} \cup FailureMessages

----------------------------------------------------------------------------
(* decode(): the orchestrator, cut at its suspension points                *)

NoOptions ==
    [modelYear |-> NoNumber, confidenceThreshold |-> NoNumber,
     includePatternDetails |-> FALSE]

EmptyComponents ==
    [checkDigit |-> None, modelYear |-> None, wmi |-> None, vds |-> None,
     vis |-> None, vehicle |-> None, plant |-> None, engine |-> None]

IdleCall ==
    [pc |-> "idle", vin |-> <<>>, options |-> NoOptions, result |-> None,
     wmi |-> <<>>, modelYear |-> None, pending |-> None, patternsKey |-> <<>>,
     tables |-> <<>>, outcome |-> "none", thrown |-> Null,
     stages |-> <<>>, queries |-> <<>>,
     resolved |-> FALSE, rawMatches |-> <<>>, matches |-> <<>>, warned |-> <<>>,
     rows |-> None]

\* the runtimes the package supports (Node.js, browsers, Workers) all
\* provide performance.now
HasPerformanceNow == TRUE

\* the clock read at line 73, and the clocks read when the call ends
StartClock(hasPerf) == IF hasPerf THEN "performance.now" ELSE "Date.now"

EarlyExitTime(hasPerf) == [start |-> StartClock(hasPerf), end |-> "Date.now"]

FinalTime(hasPerf) ==
    [start |-> StartClock(hasPerf),
     end |-> IF hasPerf THEN "performance.now" ELSE "Date.now"]

NewResult(cleanVin) ==
    [vin |-> cleanVin, valid |-> FALSE, components |-> EmptyComponents,
     errors |-> <<>>, patterns |-> None,
     metadata |-> [processingTime |-> None, confidence |-> [num |-> 0, den |-> 1],
                   schemaVersion |-> "1.0", matchedSchema |-> Null,
                   totalPatterns |-> NoNumber]]

\* 'return result' of an early exit, after processingTime = Date.now() - startTime
EarlyReturn(c, res, hasPerf) ==
    [c EXCEPT !.pc = "done", !.outcome = "returned", !.pending = None,
              !.result = [res EXCEPT !.metadata.processingTime = EarlyExitTime(hasPerf)]]

\* lines 265-270: the processing time and 'return result' at the end
FinalReturn(c, res, hasPerf) ==
    [c EXCEPT !.pc = "done", !.outcome = "returned", !.pending = None,
              !.result = [res EXCEPT !.metadata.processingTime = FinalTime(hasPerf)]]

\* FinalValid without the 'every warning' disjunct
FinalValidStrict(errors) == Len(errors) = 0

\* lines 250-252
FinalValid(errors) ==
    (\A i \in DOMAIN errors : errors[i].severity = ErrorSeverity.WARNING) \/ Len(errors) = 0

\* lines 253-263: the catch of the outer try, then the end of decode()
OuterCatch(c, message, hasPerf) ==
    FinalReturn(c,
        [c.result EXCEPT !.errors = Append(@,
            [code |-> ErrorCode.QUERY_ERROR, category |-> ErrorCategory.DATABASE, severity |-> ErrorSeverity.ERROR,
             message |-> "Unexpected error during decoding", details |-> message])],
        hasPerf)

\* InnerCatch that rethrows instead of recording the error
InnerCatchRethrow(c, message, hasPerf) ==
    [c EXCEPT !.pc = "done", !.outcome = "thrown", !.pending = None]

\* lines 235-246: the catch around pattern resolution
InnerCatch(c, message, hasPerf) ==
    EarlyReturn(c,
        [c.result EXCEPT !.errors = Append(@,
            [code |-> ErrorCode.QUERY_ERROR, category |-> ErrorCategory.DATABASE, severity |-> ErrorSeverity.ERROR,
             message |-> "Error matching patterns", details |-> message])],
        hasPerf)

\* CheckDigitError without the downgrade to a warning
CheckDigitErrorStrict(checkDigit) ==
    [code |-> ErrorCode.INVALID_CHECK_DIGIT, category |-> ErrorCategory.VALIDATION, severity |-> ErrorSeverity.ERROR,
     positions |-> <<8>>, expected |-> checkDigit.expected, actual |-> checkDigit.actual]

CheckDigitError(checkDigit) ==
    [code |-> ErrorCode.INVALID_CHECK_DIGIT, category |-> ErrorCategory.VALIDATION, severity |-> ErrorSeverity.WARNING,
     positions |-> <<8>>, expected |-> checkDigit.expected, actual |-> checkDigit.actual]

ModelYearError ==
    [code |-> ErrorCode.INVALID_MODEL_YEAR, category |-> ErrorCategory.VALIDATION, severity |-> ErrorSeverity.ERROR,
     positions |-> <<9>>]

WmiNotFoundError(wmi) ==
    [code |-> ErrorCode.WMI_NOT_FOUND, category |-> ErrorCategory.LOOKUP, severity |-> ErrorSeverity.ERROR,
     searchKey |-> wmi, searchType |-> "WMI"]

\* NoPatternsError recorded as a warning
NoPatternsWarning ==
    [code |-> ErrorCode.NO_PATTERNS_FOUND, category |-> ErrorCategory.PATTERN,
     severity |-> ErrorSeverity.WARNING]

NoPatternsError == [code |-> ErrorCode.NO_PATTERNS_FOUND, category |-> ErrorCategory.PATTERN, severity |-> ErrorSeverity.ERROR]

LowConfidenceError(avg) ==
    [code |-> ErrorCode.LOW_CONFIDENCE_PATTERNS, category |-> ErrorCategory.PATTERN, severity |-> ErrorSeverity.WARNING,
     confidence |-> avg]

\* options.modelYear ? {override} : determineModelYear(cleanVin)
ChooseModelYear(o, cleanVin, thisYear) ==
    IF o.modelYear # NoNumber /\ o.modelYear # {0}
    THEN [year |-> CHOOSE y \in o.modelYear : TRUE, source |-> "override", confidence |-> 1]
    ELSE determineModelYear(cleanVin, thisYear)

\* options.confidenceThreshold || 0.5, in units of 1 / ConfScale
Threshold(o) ==
    IF o.confidenceThreshold # NoNumber /\ o.confidenceThreshold # {0}
    THEN CHOOSE t \in o.confidenceThreshold : TRUE
    ELSE ConfScale \div 2

\* lines 72-150: from the entry of decode() to the await of getWMI
DecodeBegin(v, o, thisYear, cache, hasPerf) ==
    LET cleanVin == Trim(ToUpperCase(v))
        c0 == [IdleCall EXCEPT !.vin = v, !.options = o, !.result = NewResult(cleanVin)]
        structureErrors == validateStructure(cleanVin)
        checkDigit == validateCheckDigit(cleanVin)
        r1 == [c0.result EXCEPT !.components.checkDigit = checkDigit,
                                !.errors = IF ~checkDigit.isValid
                                           THEN Append(@, CheckDigitError(checkDigit))
                                           ELSE @]
        modelYear == ChooseModelYear(o, cleanVin, thisYear)
        wmi == extractWMI(cleanVin)
    IN  IF Len(structureErrors) > 0
        THEN EarlyReturn([c0 EXCEPT !.stages = <<"structure">>],
                         [c0.result EXCEPT !.errors = structureErrors], hasPerf)
        ELSE IF modelYear = None
        THEN EarlyReturn([c0 EXCEPT !.stages = <<"structure", "checkDigit", "modelYear">>],
                         [r1 EXCEPT !.errors = Append(@, ModelYearError)], hasPerf)
        ELSE [c0 EXCEPT !.pc = "getWMI",
                        !.result = [r1 EXCEPT !.components.modelYear = modelYear],
                        !.wmi = wmi, !.modelYear = modelYear,
                        !.stages = <<"structure", "checkDigit", "modelYear", "wmi">>,
                        !.queries = << [op |-> "getWMI", args |-> <<wmi>>] >>,
                        !.pending = IssueQuery(cache, <<"getWMI", wmi>>)]

\* lines 196-223: assembly, once pattern resolution returned a non-empty list
Assemble(c, patterns) ==
    LET cleanVin == c.result.vin
        vds == Substring(cleanVin, 3, 9)
        vis == Substring(cleanVin, 9, 17)
        vdsPatterns == SelectSeq(patterns, LAMBDA p : p.patternType = "VDS")
        visPatterns == SelectSeq(patterns, LAMBDA p : p.patternType = "VIS")
        avg == [num |-> SumConfidence(patterns), den |-> Len(patterns)]
        low == avg.num < Threshold(c.options) * avg.den
    IN  [c.result EXCEPT
            !.components.vds = IF Len(vdsPatterns) > 0
                               THEN [raw |-> vds, patterns |-> vdsPatterns] ELSE None,
            !.components.vis = IF Len(visPatterns) > 0
                               THEN [raw |-> vis, patterns |-> visPatterns] ELSE None,
            !.components.vehicle =
                extractVehicleInfo(patterns, c.result.components.wmi, c.modelYear),
            !.components.plant = extractPlantInfo(patterns, cleanVin),
            !.components.engine = extractEngineInfo(patterns),
            !.patterns = IF c.options.includePatternDetails THEN [list |-> patterns] ELSE None,
            !.metadata.confidence = avg,
            !.metadata.matchedSchema = findPrimarySchema(patterns),
            !.metadata.totalPatterns = {Len(patterns)},
            !.errors = IF low THEN Append(@, LowConfidenceError(avg)) ELSE @]

\* lines 174-252 and 265-270: decode() from the return of getPatternMatches
DecodeAfterPatterns(c, patterns, hasPerf) ==
    IF Len(patterns) > 0
    THEN LET res == Assemble(c, patterns)
         IN  FinalReturn([c EXCEPT !.stages = c.stages \o <<"assembly", "finalize">>],
                         [res EXCEPT !.valid = FinalValid(res.errors)], hasPerf)
    ELSE EarlyReturn(c, [c.result EXCEPT !.errors = Append(@, NoPatternsError)], hasPerf)

\* getRawPatternMatches steps 6-9, then getPatternMatches, then decode()
ResolveAndFinish(c, rows, hasPerf) ==
    LET vds == Substring(c.result.vin, 3, 9)
        vis == Substring(c.result.vin, 9, 17)
        rawMatches == RawPatternMatches(rows, vds, vis)
        patterns == getPatternMatches(rawMatches)
    IN  DecodeAfterPatterns([c EXCEPT !.resolved = TRUE, !.rawMatches = rawMatches,
                                      !.matches = patterns],
                            patterns, hasPerf)

\* the await of lookupValues for the first of the tables left
IssueLookup(c, rows, cache) ==
    LET tableName == Head(c.tables)
        ids == AttributeIdsOf(rows, tableName)
    IN  [c EXCEPT !.pc = "lookupValues",
                  !.queries = Append(@, [op |-> "lookupValues", args |-> <<tableName, ids>>]),
                  !.pending = IssueQuery(cache, <<"lookupValues", tableName, ids>>)]

----------------------------------------------------------------------------
(* Inputs                                                                  *)

\* decode() calls made on one decoder
MaxCalls == 1

\* the years the clock can show
FirstYear == 2025

VinT1 == <<"1","H","G","C","M","8","2","6","3","3","A","0","0","4","3","5","2">>

Edit(v, i, c) == [v EXCEPT ![i] = c]

\* an extended WMI that storage does not know
UnknownExtended == Edit(Edit(VinT1, 3, "9"), 13, "9")

\* the test VIN; the test VIN with one character replaced (a valid
\* character, three that no position accepts and, at the check digit and the
\* year code, the characters those stages tell apart) or with two invalid
\* characters; a VIN with an extended WMI that storage does not know; inputs
\* of other lengths, and inputs that need trimming and upper-casing
DecodeVins ==
    LET EditCharsAt(i) ==
            {"9", "I", "q", " "}
                \cup (IF i = 9 THEN {"4", "X", "Z"} ELSE {})
                \cup (IF i = 10 THEN {"0", "A", "U", "Y", "Z"} ELSE {})
                \cup (IF i \in {4, 7, 11} THEN {"B"} ELSE {})
        SingleEdits == UNION {{Edit(VinT1, i, c) : c \in EditCharsAt(i)} : i \in 1..17}
        DoubleEdits == {Edit(Edit(VinT1, i, "O"), j, "i") : i \in 1..17, j \in {3, 9, 10, 17}}
        OtherLengths ==
            {SubSeq(VinT1, 1, n) : n \in {0, 3, 16}}
                \cup {VinT1 \o <<"2">>, <<" ">> \o VinT1 \o <<" ">>,
                      <<" ">> \o SubSeq(VinT1, 1, 16), SubSeq(Edit(VinT1, 2, "I"), 1, 16)}
    IN  {VinT1, UnknownExtended, Edit(Edit(VinT1, 4, "B"), 11, "B")}
            \cup SingleEdits \cup DoubleEdits \cup OtherLengths
            \cup {[i \in 1..17 |-> "1"],
                  [i \in 1..17 |-> IF VinT1[i] \in Range(UpperChars)
                                   THEN LowerChars[IndexOf(UpperChars, VinT1[i])]
                                   ELSE VinT1[i]]}

DecodeOptions ==
    {NoOptions,
     [NoOptions EXCEPT !.modelYear = {2024}],
     [NoOptions EXCEPT !.modelYear = {1999}],
     [NoOptions EXCEPT !.modelYear = {0}],
     [NoOptions EXCEPT !.confidenceThreshold = {(ConfScale * 9) \div 10},
                       !.includePatternDetails = TRUE],
     [NoOptions EXCEPT !.confidenceThreshold = {0 - ConfScale}],
     [NoOptions EXCEPT !.confidenceThreshold = {0}]}

DecodeYears == {FirstYear}

----------------------------------------------------------------------------
(* The decoder as a state machine                                          *)

\* the file system before anything is installed
NoFiles == [dir |-> FALSE, cache |-> "absent", uncompressed |-> FALSE, compressed |-> FALSE]

EmptyCache == [k \in {} |-> Null]

Init ==
    /\ call = IdleCall
    /\ peer = IdleCall
    /\ currentYear \in DecodeYears
    /\ dbCache = EmptyCache
    /\ pmCache = EmptyCache
    /\ calls = 0
    /\ sharedDecoderInstance = NoNumber
    /\ tasks = <<>>
    /\ fs = NoFiles
    /\ fnIn = None
    /\ fnOut = None

\* decoder.decode(vin, options) is called and runs to its first await
Decode(v, o) ==
    /\ call.pc = "idle"
    /\ calls < MaxCalls
    /\ call' = DecodeBegin(v, o, currentYear, dbCache, HasPerformanceNow)
    /\ calls' = calls + 1
    /\ UNCHANGED <<peer, currentYear, dbCache, pmCache, fnIn, fnOut, sharedDecoderInstance, tasks, fs>>

\* AfterGetWMI without the early return of the WMI miss
AfterGetWMINoReturn(c, wmiInfo, pm, hasPerf) ==
    LET c1 == IF wmiInfo = None
              THEN [c EXCEPT !.result.errors = Append(@, WmiNotFoundError(c.wmi))]
              ELSE c
    IN  [c1 EXCEPT !.pc = "getValidSchemas",
                   !.result = [c1.result EXCEPT !.components.wmi = wmiInfo],
                   !.stages = Append(@, "patterns"),
                   !.queries = Append(@, [op |-> "getValidSchemas",
                                          args |-> <<c.wmi, c.modelYear.year>>]),
                   !.pending = IssueQuery(pm, <<"getValidSchemas", c.wmi, c.modelYear.year>>)]

\* lines 150-174 and getRawPatternMatches to its first await
AfterGetWMI(c, wmiInfo, pm, hasPerf) ==
    IF wmiInfo = None
    THEN EarlyReturn(c, [c.result EXCEPT !.errors = Append(@, WmiNotFoundError(c.wmi))], hasPerf)
    ELSE [c EXCEPT !.pc = "getValidSchemas",
                   !.result = [c.result EXCEPT !.components.wmi = wmiInfo],
                   !.stages = Append(@, "patterns"),
                   !.queries = Append(@, [op |-> "getValidSchemas",
                                          args |-> <<c.wmi, c.modelYear.year>>]),
                   !.pending = IssueQuery(pm, <<"getValidSchemas", c.wmi, c.modelYear.year>>)]

\* the promise of db.getWMI settles
GetWMIDone ==
    /\ call.pc = "getWMI"
    /\ \E fail \in ExecOutcomes(call.pending) :
        IF fail # Null
        THEN /\ call' = OuterCatch([call EXCEPT !.thrown = fail], fail, HasPerformanceNow)
             /\ dbCache' = dbCache
        ELSE LET wmiInfo == IF call.pending.hit THEN call.pending.value
                            ELSE ExecGetWMI(call.wmi)
             IN  /\ call' = AfterGetWMI(call, wmiInfo, pmCache, HasPerformanceNow)
                 /\ dbCache' = IF call.pending.hit THEN dbCache
                               ELSE CacheSet(dbCache, call.pending.key, wmiInfo)
    /\ UNCHANGED <<peer, currentYear, pmCache, calls, fnIn, fnOut, sharedDecoderInstance, tasks, fs>>

\* getRawPatternMatches lines 480-490
AfterGetValidSchemas(c, validSchemas, pm, hasPerf) ==
    IF Len(validSchemas) = 0
    THEN DecodeAfterPatterns([c EXCEPT !.resolved = TRUE], getPatternMatches(<<>>), hasPerf)
    ELSE LET schemaIds == [i \in DOMAIN validSchemas |-> validSchemas[i].SchemaId]
         IN  [c EXCEPT !.pc = "getPatterns",
                       !.queries = Append(@, [op |-> "getPatterns", args |-> <<schemaIds>>]),
                       !.patternsKey = <<"getPatterns", schemaIds>>,
                       !.pending = IssueQuery(pm, <<"getPatterns", schemaIds>>)]

\* the promise of db.getValidSchemas settles
GetValidSchemasDone ==
    /\ call.pc = "getValidSchemas"
    /\ \E fail \in ExecOutcomes(call.pending) :
        IF fail # Null
        THEN /\ call' = InnerCatch([call EXCEPT !.thrown = fail], fail, HasPerformanceNow)
             /\ pmCache' = pmCache
        ELSE LET validSchemas == IF call.pending.hit THEN call.pending.value
                                 ELSE ExecGetValidSchemas(call.wmi, call.modelYear.year)
                 pm == IF call.pending.hit THEN pmCache
                       ELSE CacheSet(pmCache, call.pending.key, validSchemas)
             IN  /\ call' = AfterGetValidSchemas(call, validSchemas, pm, HasPerformanceNow)
                 /\ pmCache' = pm
    /\ UNCHANGED <<peer, currentYear, dbCache, calls, fnIn, fnOut, sharedDecoderInstance, tasks, fs>>

\* getRawPatternMatches lines 494-539: filter, group, first lookup
AfterGetPatterns(c, rows, pm, hasPerf) ==
    LET c1 == [c EXCEPT !.tables = TablesOf(rows)]
    IN  IF c1.tables = <<>> THEN ResolveAndFinish(c1, rows, hasPerf)
        ELSE IssueLookup(c1, rows, pm)

\* the promise of db.getPatterns settles. A hit hands out the cached array
\* itself; a miss caches a new array, and a suspended call that works on the
\* array cached until now keeps that array (its field rows)
GetPatternsDone ==
    /\ call.pc = "getPatterns"
    /\ \E fail \in ExecOutcomes(call.pending) :
        IF fail # Null
        THEN /\ call' = InnerCatch([call EXCEPT !.thrown = fail], fail, HasPerformanceNow)
             /\ pmCache' = pmCache
             /\ peer' = peer
        ELSE LET allPatterns == IF call.pending.hit THEN pmCache[call.patternsKey]
                                ELSE ExecGetPatterns(call.patternsKey[2])
                 rows == SetRawValues(allPatterns)
                 pm == CacheSet(pmCache, call.patternsKey, rows)
             IN  /\ call' = AfterGetPatterns(call, rows, pm, HasPerformanceNow)
                 /\ pmCache' = pm
                 /\ peer' = IF /\ ~call.pending.hit
                               /\ peer.pc = "lookupValues"
                               /\ peer.patternsKey = call.patternsKey
                               /\ peer.rows = None
                            THEN [peer EXCEPT !.rows = pmCache[call.patternsKey]]
                            ELSE peer
    /\ UNCHANGED <<currentYear, dbCache, calls, fnIn, fnOut, sharedDecoderInstance, tasks, fs>>

\* the outcomes of the exec of lookupValues: a table that does not exist
\* makes exec throw every time
LookupOutcomes(pending, tableName) ==
    IF pending.hit THEN {Null}
    ELSE IF tableName \notin DOMAIN LookupData THEN {"no such table"}
    ELSE {Null} \cup FailureMessages

\* the promise of db.lookupValues settles (it never rejects: lines 1041-1044)
LookupValuesDone ==
    /\ call.pc = "lookupValues"
    /\ \E fail \in LookupOutcomes(call.pending, Head(call.tables)) :
        LET tableName == Head(call.tables)
            ids == call.pending.key[3]
            lookupMap == IF fail # Null THEN EmptyCache
                         ELSE IF call.pending.hit THEN call.pending.value
                         ELSE ExecLookup(tableName, ids)
            pm1 == IF fail # Null \/ call.pending.hit THEN pmCache
                   ELSE CacheSet(pmCache, call.pending.key, lookupMap)
            held == IF call.rows = None THEN pm1[call.patternsKey] ELSE call.rows
            rows == ApplyLookup(held, tableName, lookupMap)
            pm2 == IF call.rows = None THEN CacheSet(pm1, call.patternsKey, rows) ELSE pm1
            c1 == [call EXCEPT !.tables = Tail(@),
                               !.warned = IF fail # Null THEN Append(@, tableName) ELSE @,
                               !.rows = IF @ = None THEN @ ELSE rows]
        IN  /\ call' = IF c1.tables = <<>>
                       THEN ResolveAndFinish(c1, rows, HasPerformanceNow)
                       ELSE IssueLookup(c1, rows, pm2)
            /\ pmCache' = pm2
    /\ UNCHANGED <<peer, currentYear, dbCache, calls, fnIn, fnOut, sharedDecoderInstance, tasks, fs>>

\* the caller takes the settled promise; the decoder is free for the next call
Return ==
    /\ call.pc = "done"
    /\ call' = IdleCall
    /\ UNCHANGED <<peer, currentYear, dbCache, pmCache, calls, fnIn, fnOut, sharedDecoderInstance, tasks, fs>>

Next ==
    \/ \E v \in DecodeVins, o \in DecodeOptions : Decode(v, o)
    \/ GetWMIDone
    \/ GetValidSchemasDone
    \/ GetPatternsDone
    \/ LookupValuesDone
    \/ Return

Spec == Init /\ [][Next]_vars

----------------------------------------------------------------------------
(* Two decode() calls in flight on one decoder. A call runs from one await *)
(* to the next without interruption; at an await the event loop may resume *)
(* the other call, which Switch models by exchanging call and peer.        *)

MaxOverlap == 2

\* calls counts from MaxCalls - MaxOverlap, so that MaxOverlap calls are made
InitOverlap ==
    /\ call = IdleCall
    /\ peer = IdleCall
    /\ currentYear \in DecodeYears
    /\ dbCache = EmptyCache
    /\ pmCache = EmptyCache
    /\ calls = MaxCalls - MaxOverlap
    /\ sharedDecoderInstance = NoNumber
    /\ tasks = <<>>
    /\ fs = NoFiles
    /\ fnIn = None
    /\ fnOut = None

\* the running call is suspended at an await and the other call runs
Switch ==
    /\ call.pc # "done"
    /\ call.pc # "idle" \/ peer.pc # "idle"
    /\ call' = peer
    /\ peer' = call
    /\ UNCHANGED <<currentYear, dbCache, pmCache, calls, fnIn, fnOut, sharedDecoderInstance, tasks, fs>>

NextOverlap ==
    \/ \E v \in {VinT1, Edit(VinT1, 17, "9"), Edit(VinT1, 1, "9")},
          o \in {NoOptions, [NoOptions EXCEPT !.modelYear = {2024}]} : Decode(v, o)
    \/ GetWMIDone
    \/ GetValidSchemasDone
    \/ GetPatternsDone
    \/ LookupValuesDone
    \/ Return
    \/ Switch

SpecOverlap == InitOverlap /\ [][NextOverlap]_vars

----------------------------------------------------------------------------
(* Calls made one after the other on one decoder, with clearCache() called *)
(* between them on either of the two VPICDatabase objects (the decoder's   *)
(* and the pattern matcher's).                                             *)

\* lines 859-861, called while no decode() call is suspended
ClearCache(db) ==
    /\ call.pc = "idle"
    /\ peer.pc = "idle"
    /\ IF db = "decoder"
       THEN dbCache # EmptyCache /\ dbCache' = EmptyCache /\ pmCache' = pmCache
       ELSE pmCache # EmptyCache /\ pmCache' = EmptyCache /\ dbCache' = dbCache
    /\ UNCHANGED <<call, peer, currentYear, calls, fnIn, fnOut, sharedDecoderInstance, tasks, fs>>

NextCache ==
    \/ \E v \in {VinT1, Edit(VinT1, 17, "9"), Edit(VinT1, 1, "9"), Edit(VinT1, 3, "9")},
          o \in {NoOptions, [NoOptions EXCEPT !.modelYear = {1999}]} : Decode(v, o)
    \/ GetWMIDone
    \/ GetValidSchemasDone
    \/ GetPatternsDone
    \/ LookupValuesDone
    \/ Return
    \/ \E db \in {"decoder", "matcher"} : ClearCache(db)

SpecCache == InitOverlap /\ [][NextCache]_vars

----------------------------------------------------------------------------
(* The positional algorithms applied on their own                          *)

\* applications of one function to one argument
MaxApply == 2

\* how many calendar years after FirstYear the clock can show
YearSpan == 3

VinAlphabet ==
    {"0","1","2","3","4","5","6","7","8","9","A","B","C","D","E","F","G","H",
     "J","K","L","M","N","P","R","S","T","U","V","W","X","Y","Z"}

\* 17-character strings over the VIN alphabet: the test VIN with any one
\* character replaced, and with the check digit and one more replaced
InitCheckDigit ==
    /\ call = IdleCall
    /\ peer = IdleCall
    /\ currentYear = FirstYear
    /\ dbCache = EmptyCache
    /\ pmCache = EmptyCache
    /\ calls = 0
    /\ sharedDecoderInstance = NoNumber
    /\ tasks = <<>>
    /\ fs = NoFiles
    /\ fnIn \in {Edit(VinT1, i, c) : i \in 1..17, c \in VinAlphabet}
                \cup {Edit(Edit(VinT1, 9, "X"), i, c) : i \in {1, 8, 17}, c \in VinAlphabet}
    /\ fnOut = <<>>

\* this.validateCheckDigit(vin)
ApplyCheckDigit ==
    /\ Len(fnOut) < MaxApply
    /\ fnOut' = Append(fnOut, validateCheckDigit(fnIn))
    /\ UNCHANGED <<call, peer, currentYear, dbCache, pmCache, calls, fnIn, sharedDecoderInstance, tasks, fs>>

SpecCheckDigit == InitCheckDigit /\ [][ApplyCheckDigit]_vars

\* structurally valid VINs with every character at position 10 that
\* validateStructure lets through
InitModelYear ==
    /\ call = IdleCall
    /\ peer = IdleCall
    /\ currentYear \in FirstYear .. FirstYear + YearSpan
    /\ dbCache = EmptyCache
    /\ pmCache = EmptyCache
    /\ calls = 0
    /\ sharedDecoderInstance = NoNumber
    /\ tasks = <<>>
    /\ fs = NoFiles
    /\ fnIn \in {Edit(VinT1, 10, c) : c \in VinAlphabet}
    /\ fnOut = <<>>

\* this.determineModelYear(vin), with the clock at currentYear
ApplyModelYear ==
    /\ Len(fnOut) < MaxApply
    /\ fnOut' = Append(fnOut, determineModelYear(fnIn, currentYear))
    /\ UNCHANGED <<call, peer, currentYear, dbCache, pmCache, calls, fnIn, sharedDecoderInstance, tasks, fs>>

SpecModelYear == InitModelYear /\ [][ApplyModelYear]_vars

----------------------------------------------------------------------------
(* The pattern matcher applied on its own                                  *)

\* longest pattern, in units, and longest input, in characters
MaxTokens == 3

MaxInput == 2

\* pattern units: literals, the wildcard, character classes, the VIS
\* separator, and an unclosed bracket
PatternTokens ==
    {<<"A">>, <<"B">>, <<"9">>, <<"*">>, <<"[","A","-","E","]">>, <<"[","1","3","]">>,
     <<"[","1","-","4","6","]">>, <<"|">>, <<"[">>}

RECURSIVE Flatten(_)
Flatten(tokens) == IF tokens = <<>> THEN <<>> ELSE Head(tokens) \o Flatten(Tail(tokens))

\* patterns of up to MaxTokens units and inputs of up to MaxInput characters,
\* with the five-character patterns and inputs of the VDS and the VIS
InitPattern ==
    LET Star == <<"*">>
        PatternCases ==
            UNION {[1..n -> PatternTokens] : n \in 0..MaxTokens}
                \cup {<<Star, Star, Star, Star, <<"9">>>>,
                      <<Star, Star, Star, Star, Star, <<"|">>, Star, <<"A">>>>,
                      <<Star, Star, Star, Star, Star, <<"|">>, Star, Star>>,
                      <<<<"A">>, <<"B">>, <<"9">>, <<"A">>, <<"B">>>>}
        InputCases ==
            UNION {[1..n -> {"A", "B", "F", "1", "9"}] : n \in 0..MaxInput}
                \cup {<<"1","2","3","4","5">>, <<"A","B","9","A","B">>,
                      <<"A","B","9","A","B","F">>}
    IN  /\ call = IdleCall
        /\ peer = IdleCall
        /\ currentYear = FirstYear
        /\ dbCache = EmptyCache
        /\ pmCache = EmptyCache
        /\ calls = 0
        /\ sharedDecoderInstance = NoNumber
        /\ tasks = <<>>
        /\ fs = NoFiles
        /\ fnIn \in [tokens : PatternCases, input : InputCases]
        /\ fnOut = None

\* matchesSimplePattern, matchesPattern and calculateConfidence on one
\* pattern and one input
ApplyPattern ==
    /\ fnIn # None
    /\ fnOut = None
    /\ fnOut' = [simple |-> matchesSimplePattern(fnIn.input, Flatten(fnIn.tokens)),
                 matches |-> matchesPattern(fnIn.input, Flatten(fnIn.tokens)),
                 confidence |-> calculateConfidence(Flatten(fnIn.tokens), fnIn.input)]
    /\ UNCHANGED <<call, peer, currentYear, dbCache, pmCache, calls, fnIn, sharedDecoderInstance, tasks, fs>>

\* the matcher on its own, and the matcher as decode() drives it
SpecPattern == (Init \/ InitPattern) /\ [][ApplyPattern \/ (fnIn = None /\ Next)]_vars

----------------------------------------------------------------------------
(* Decoder set-up: getDecoder, createDecoder, getDatabasePath              *)

\* number of set-up calls that may overlap
MaxTasks == 2

CACHE_DB_PATH == "~/.corgi-cache/vpic.lite.db"

NotFoundMessage ==
    "Failed to prepare database: Database file not found. Please specify a database path explicitly when creating the decoder."

IdleTask ==
    [pc |-> "idle", kind |-> Null, config |-> None, created |-> FALSE,
     cacheAtCall |-> Null, wrote |-> Null, path |-> Null, instance |-> NoNumber, error |-> Null]

\* getDatabasePath without the forceFresh test of line 301
getDatabasePathCacheFirst(task, f) ==
    LET options == task.config
        withDir == [f EXCEPT !.dir = TRUE]
    IN  IF options.databasePath # Null /\ options.databasePath # ""
        THEN [task |-> [task EXCEPT !.pc = "resolved", !.path = options.databasePath], fs |-> f]
        ELSE IF f.cache # "absent"
        THEN [task |-> [task EXCEPT !.pc = "resolved", !.path = CACHE_DB_PATH], fs |-> f]
        ELSE IF f.uncompressed
        THEN [task |-> [task EXCEPT !.pc = "opening", !.wrote = "copyFile"], fs |-> withDir]
        ELSE IF f.compressed
        THEN [task |-> [task EXCEPT !.pc = "opening", !.wrote = "decompressDatabase"],
              fs |-> withDir]
        ELSE [task |-> [task EXCEPT !.pc = "done", !.error = NotFoundMessage], fs |-> withDir]

\* getDatabasePath from its entry to its first await or to its return
getDatabasePath(task, f) ==
    LET options == task.config
        withDir == [f EXCEPT !.dir = TRUE]
    IN  IF options.databasePath # Null /\ options.databasePath # ""
        THEN [task |-> [task EXCEPT !.pc = "resolved", !.path = options.databasePath], fs |-> f]
        ELSE IF ~options.forceFresh /\ f.cache # "absent"
        THEN [task |-> [task EXCEPT !.pc = "resolved", !.path = CACHE_DB_PATH], fs |-> f]
        ELSE IF f.uncompressed
        THEN [task |-> [task EXCEPT !.pc = "opening", !.wrote = "copyFile"], fs |-> withDir]
        ELSE IF f.compressed
        THEN [task |-> [task EXCEPT !.pc = "opening", !.wrote = "decompressDatabase"],
              fs |-> withDir]
        ELSE [task |-> [task EXCEPT !.pc = "done", !.error = NotFoundMessage], fs |-> withDir]

\* createDecoder(config) to the await of getDatabasePath
createDecoder(task, f) ==
    getDatabasePath([task EXCEPT !.created = TRUE, !.cacheAtCall = f.cache], f)

\* getDecoder(config) to its await, or to its return of the shared instance
getDecoder(task, shared, f) ==
    IF shared = NoNumber THEN createDecoder(task, f)
    ELSE [task |-> [task EXCEPT !.pc = "done", !.instance = shared], fs |-> f]

InitSetup ==
    /\ call = IdleCall
    /\ peer = IdleCall
    /\ currentYear = FirstYear
    /\ dbCache = EmptyCache
    /\ pmCache = EmptyCache
    /\ calls = 0
    /\ fnIn = None
    /\ fnOut = None
    /\ sharedDecoderInstance = NoNumber
    /\ tasks = [t \in 1..MaxTasks |-> IdleTask]
    /\ fs \in {f \in [dir : BOOLEAN, cache : {"absent", "complete"},
                      uncompressed : BOOLEAN, compressed : BOOLEAN] :
                  f.cache = "complete" => f.dir}

\* getDecoder(config) or createDecoder(config) is called; the calls are
\* numbered in the order they are made
CallSetup(t, kind, config) ==
    /\ tasks[t].pc = "idle"
    /\ \A u \in 1..(t - 1) : tasks[u].pc # "idle"
    /\ LET task == [IdleTask EXCEPT !.kind = kind, !.config = config]
           r == IF kind = "getDecoder" THEN getDecoder(task, sharedDecoderInstance, fs)
                ELSE createDecoder(task, fs)
       IN  /\ tasks' = [tasks EXCEPT ![t] = r.task]
           /\ fs' = r.fs
    /\ UNCHANGED <<call, peer, currentYear, dbCache, pmCache, calls, fnIn, fnOut,
                   sharedDecoderInstance>>

\* createWriteStream(destPath) opens the cache file, emptying it
OpenCacheFile(t) ==
    /\ tasks[t].pc = "opening"
    /\ tasks' = [tasks EXCEPT ![t].pc = "copying"]
    /\ fs' = [fs EXCEPT !.cache = "partial"]
    /\ UNCHANGED <<call, peer, currentYear, dbCache, pmCache, calls, fnIn, fnOut,
                   sharedDecoderInstance>>

\* the pipeline of copyFile or decompressDatabase settles; on failure the
\* catch of getDatabasePath rethrows
PipelineDone(t) ==
    /\ tasks[t].pc = "copying"
    /\ \E ok \in BOOLEAN :
          IF ok
          THEN /\ tasks' = [tasks EXCEPT ![t].pc = "resolved", ![t].path = CACHE_DB_PATH]
               /\ fs' = [fs EXCEPT !.cache =
                            IF \E u \in DOMAIN tasks : u # t /\ tasks[u].pc = "copying"
                            THEN "partial" ELSE "complete"]
          ELSE /\ tasks' = [tasks EXCEPT ![t].pc = "done",
                                         ![t].error = "Failed to prepare database: pipeline"]
               /\ fs' = fs
    /\ UNCHANGED <<call, peer, currentYear, dbCache, pmCache, calls, fnIn, fnOut,
                   sharedDecoderInstance>>

\* createAdapter settles; createDecoder returns a new VINDecoderWrapper and
\* getDecoder stores and returns it
AdapterDone(t) ==
    /\ tasks[t].pc = "resolved"
    /\ \E ok \in BOOLEAN :
          IF ok
          THEN LET instance == 1 + Cardinality({u \in DOMAIN tasks : tasks[u].created
                                                                   /\ tasks[u].instance # NoNumber})
               IN  /\ tasks' = [tasks EXCEPT ![t].pc = "done", ![t].instance = {instance}]
                   /\ sharedDecoderInstance' =
                          IF tasks[t].kind = "getDecoder" THEN {instance}
                          ELSE sharedDecoderInstance
          ELSE /\ tasks' = [tasks EXCEPT ![t].pc = "done", ![t].error = "createAdapter"]
               /\ UNCHANGED sharedDecoderInstance
    /\ UNCHANGED <<call, peer, currentYear, dbCache, pmCache, calls, fnIn, fnOut, fs>>

\* DecoderConfig: databasePath absent, empty or a path of the caller's
NextSetup ==
    \/ \E t \in 1..MaxTasks, kind \in {"getDecoder", "createDecoder"},
          config \in [databasePath : {Null, "", "/data/vpic.lite.db"}, forceFresh : BOOLEAN] :
              CallSetup(t, kind, config)
    \/ \E t \in 1..MaxTasks : OpenCacheFile(t)
    \/ \E t \in 1..MaxTasks : PipelineDone(t)
    \/ \E t \in 1..MaxTasks : AdapterDone(t)

SpecSetup == InitSetup /\ [][NextSetup]_vars

----------------------------------------------------------------------------
(* Properties of decode()                                                  *)

Done == call.pc = "done"

Errors == call.result.errors

ErrorsWith(code) == {i \in DOMAIN Errors : Errors[i].code = code}

Populated == {k \in DOMAIN call.result.components : call.result.components[k] # None}

OnlyWarnings == \A i \in DOMAIN Errors : Errors[i].severity = ErrorSeverity.WARNING

\* C1: every result decode() returns, on every exit path, has valid = true
\* if and only if each of its errors has severity 'warning' (none included)
C1_ValidIffOnlyWarnings == Done => (call.result.valid <=> OnlyWarnings)

\* a returned result that is valid although it carries a warning
C1_Witness == Done /\ call.result.valid /\ Len(Errors) > 0

\* C2: decode() never throws; when getWMI, getValidSchemas or getPatterns
\* fails, the result returned has valid = false and one DATABASE error, of
\* code QUERY_ERROR, whose details is the message of the failure
C2_FailuresAreData ==
    /\ call.outcome # "thrown"
    /\ Done /\ call.thrown # Null =>
        /\ call.outcome = "returned"
        /\ ~call.result.valid
        /\ \E i \in DOMAIN Errors :
            /\ Errors[i].category = ErrorCategory.DATABASE
            /\ Errors[i].code = ErrorCode.QUERY_ERROR
            /\ Errors[i].details = call.thrown
            /\ \A j \in DOMAIN Errors : Errors[j].category = ErrorCategory.DATABASE => j = i

\* a call with a check-digit warning that ended when a schema or pattern
\* query failed
C2_Witness ==
    /\ Done
    /\ call.thrown # Null
    /\ call.queries[Len(call.queries)].op \in {"getPatterns", "getValidSchemas"}
    /\ Len(Errors) = 2

StageOrder ==
    <<"structure", "checkDigit", "modelYear", "wmi", "patterns", "assembly", "finalize">>

IsPrefix(a, b) == Len(a) <= Len(b) /\ SubSeq(b, 1, Len(a)) = a

QueryOps == [i \in DOMAIN call.queries |-> call.queries[i].op]

CleanVin == call.result.vin

\* C3: the stages run in the order structure, check digit, model year, WMI,
\* patterns, assembly; a terminal failure ends the call at its stage: no
\* query after a structure or model-year failure, only the getWMI query
\* after a WMI miss, and the components are those of the stages completed
C3_StagesShortCircuit ==
    /\ IsPrefix(call.stages, StageOrder)
    /\ \A i \in DOMAIN QueryOps :
        QueryOps[i] = (IF i <= 3 THEN <<"getWMI", "getValidSchemas", "getPatterns">>[i]
                       ELSE "lookupValues")
    /\ Done =>
        /\ ErrorsWith(ErrorCode.INVALID_LENGTH) \cup ErrorsWith(ErrorCode.INVALID_CHARACTERS) # {} =>
            call.stages = <<"structure">> /\ call.queries = <<>> /\ Populated = {}
        /\ ErrorsWith(ErrorCode.INVALID_MODEL_YEAR) # {} =>
            /\ call.stages = <<"structure", "checkDigit", "modelYear">>
            /\ call.queries = <<>>
            /\ Populated = {"checkDigit"}
        /\ ErrorsWith(ErrorCode.WMI_NOT_FOUND) # {} =>
            /\ call.stages = <<"structure", "checkDigit", "modelYear", "wmi">>
            /\ QueryOps = <<"getWMI">>
            /\ Populated = {"checkDigit", "modelYear"}
        /\ ErrorsWith(ErrorCode.NO_PATTERNS_FOUND) # {} =>
            /\ call.stages = <<"structure", "checkDigit", "modelYear", "wmi", "patterns">>
            /\ Populated = {"checkDigit", "modelYear", "wmi"}
        /\ ErrorsWith(ErrorCode.QUERY_ERROR) # {} =>
            Populated = IF Len(call.queries) = 1 THEN {"checkDigit", "modelYear"}
                        ELSE {"checkDigit", "modelYear", "wmi"}
        /\ call.stages = StageOrder =>
            {"checkDigit", "modelYear", "wmi", "vehicle"} \subseteq Populated

\* a call that ended at the WMI stage, after one query
C3_Witness ==
    /\ Done
    /\ ErrorsWith(ErrorCode.WMI_NOT_FOUND) # {}
    /\ Len(call.queries) = 1
    /\ call.result.components.modelYear # None

\* C4: an input whose trimmed length is not 17 (the empty string included)
\* yields exactly one error, INVALID_LENGTH / STRUCTURE / error, with
\* valid = false and no component
C4_WrongLength ==
    Done /\ Len(Trim(call.vin)) # 17 =>
        /\ Errors = << [code |-> ErrorCode.INVALID_LENGTH, category |-> ErrorCategory.STRUCTURE, severity |-> ErrorSeverity.ERROR] >>
        /\ ~call.result.valid
        /\ Populated = {}

\* a 16-character input that also holds a character no position accepts
C4_Witness == Done /\ Len(Trim(call.vin)) = 16 /\ "I" \in Range(call.vin)

\* the positions whose character breaks the rule of the position
Offending(v) ==
    {i \in 1..17 : IF i = 9 THEN v[i] \notin Range(DigitChars) \cup {"X"}
                   ELSE v[i] \notin VinAlphabet}

\* C5: for a 17-character input, all invalid characters are reported in one
\* INVALID_CHARACTERS error whose positions are exactly the 1-indexed
\* offending positions; decode() then stops with valid = false and no
\* component; an input without offending character has no structure error
C5_InvalidCharacters ==
    Done /\ Len(CleanVin) = 17 =>
        IF Offending(CleanVin) # {}
        THEN /\ Len(Errors) = 1
             /\ Errors[1].code = ErrorCode.INVALID_CHARACTERS
             /\ Errors[1].category = ErrorCategory.STRUCTURE
             /\ Errors[1].severity = ErrorSeverity.ERROR
             /\ Range(Errors[1].positions) = Offending(CleanVin)
             /\ Len(Errors[1].positions) = Cardinality(Offending(CleanVin))
             /\ ~call.result.valid
             /\ Populated = {}
             /\ call.queries = <<>>
        ELSE \A i \in DOMAIN Errors : Errors[i].category # ErrorCategory.STRUCTURE

\* a letter of the VIN alphabet in the check-digit position, reported alone
C5_Witness ==
    /\ Done
    /\ Len(CleanVin) = 17
    /\ Offending(CleanVin) = {9}
    /\ CleanVin[9] \in VinAlphabet
    /\ Len(Errors) = 1

\* the transliteration table of 49 CFR 565.15(c): digits stand for
\* themselves, letters for the value of their group
StandardValue(c) ==
    CASE c \in {"A", "J"} -> 1
      [] c \in {"B", "K", "S"} -> 2
      [] c \in {"C", "L", "T"} -> 3
      [] c \in {"D", "M", "U"} -> 4
      [] c \in {"E", "N", "V"} -> 5
      [] c \in {"F", "W"} -> 6
      [] c \in {"G", "P", "X"} -> 7
      [] c \in {"H", "Y"} -> 8
      [] c \in {"R", "Z"} -> 9
      [] OTHER -> (CHOOSE d \in 0..9 : <<"0","1","2","3","4","5","6","7","8","9">>[d + 1] = c)

PositionWeight == <<8, 7, 6, 5, 4, 3, 2, 10, 0, 9, 8, 7, 6, 5, 4, 3, 2>>

\* the check digit of a 17-character string: the weighted sum modulo 11
ExpectedDigit(v) ==
    LET sum[i \in 0..17] ==
            IF i = 0 THEN 0 ELSE sum[i - 1] + StandardValue(v[i]) * PositionWeight[i]
        remainder == sum[17] % 11
    IN  IF remainder = 10 THEN "X"
        ELSE <<"0","1","2","3","4","5","6","7","8","9">>[remainder + 1]

\* C6: for a 17-character string over the VIN alphabet, expected is the
\* weighted sum of the transliterated characters modulo 11, written 'X' for
\* 10; isValid holds exactly when the ninth character equals expected; and
\* computing again yields the same expected
C6_CheckDigit ==
    \A k \in DOMAIN fnOut :
        /\ fnOut[k].expected = ExpectedDigit(fnIn)
        /\ fnOut[k].isValid <=> (fnIn[9] = fnOut[k].expected)
        /\ fnOut[k].expected = fnOut[1].expected

\* a VIN whose check digit is 'X', validated twice
C6_Witness ==
    /\ Len(fnOut) = 2
    /\ fnOut[2].expected = "X"
    /\ fnOut[2].isValid
    /\ fnIn[1] # "1"

\* C7: a check-digit mismatch records components.checkDigit with
\* isValid = false and exactly one INVALID_CHECK_DIGIT warning, the later
\* stages still run, and valid = true when no later stage fails
C7_CheckDigitMismatch ==
    call.pc # "idle" /\ Len(call.stages) >= 2 /\ CleanVin[9] # ExpectedDigit(CleanVin) =>
        /\ call.result.components.checkDigit # None
        /\ ~call.result.components.checkDigit.isValid
        /\ Cardinality(ErrorsWith(ErrorCode.INVALID_CHECK_DIGIT)) = 1
        /\ \A i \in ErrorsWith(ErrorCode.INVALID_CHECK_DIGIT) : Errors[i].severity = ErrorSeverity.WARNING
        /\ IsPrefix(<<"structure", "checkDigit", "modelYear">>, call.stages)
        /\ Done /\ (\A i \in DOMAIN Errors \ ErrorsWith(ErrorCode.INVALID_CHECK_DIGIT) :
                        Errors[i].severity = ErrorSeverity.WARNING) =>
            call.result.valid /\ call.stages = StageOrder

\* the test VIN with its check digit altered, decoded to a valid result
C7_Witness ==
    /\ Done
    /\ CleanVin = Edit(VinT1, 9, "4")
    /\ ErrorsWith(ErrorCode.INVALID_CHECK_DIGIT) # {}
    /\ call.result.valid
    /\ call.result.components.vehicle # None

\* the year codes: A-H, J-N, P, R, S, T, V, W, X, Y and 1-9
YearCodes ==
    {"A","B","C","D","E","F","G","H","J","K","L","M","N","P","R","S","T",
     "V","W","X","Y","1","2","3","4","5","6","7","8","9"}

\* C8: without override, a year code at position 10 yields a year within
\* [1980, currentYear + 1]; U, Z, 0 (and I, O, Q) yield null
C8_ModelYearTable ==
    \A k \in DOMAIN fnOut :
        IF fnIn[10] \in YearCodes
        THEN fnOut[k] # None /\ fnOut[k].year \in 1980 .. currentYear + 1
        ELSE fnOut[k] = None

\* C9: options.modelYear = Y on a structurally valid VIN yields
\* components.modelYear = {year: Y, source: 'override', confidence: 1},
\* whatever Y and the character at position 10; INVALID_MODEL_YEAR is
\* not raised
C9_OverrideRoundTrip ==
    call.pc # "idle" /\ Len(call.stages) >= 2 /\ call.options.modelYear # {} =>
        /\ \E y \in call.options.modelYear :
            call.result.components.modelYear =
                [year |-> y, source |-> "override", confidence |-> 1]
        /\ ErrorsWith(ErrorCode.INVALID_MODEL_YEAR) = {}

\* the first three characters, followed by the characters at indices 11
\* to 13 when the third is '9'
ExpectedWmi(v) ==
    IF v[3] = "9" THEN <<v[1], v[2], v[3], v[12], v[13], v[14]>> ELSE <<v[1], v[2], v[3]>>

\* C10: the code looked up is the first 3 characters, extended by those at
\* indices 11-13 exactly when the third is '9'; when storage has no record
\* of it the call ends with WMI_NOT_FOUND (LOOKUP, error) whose searchKey
\* is that code, with checkDigit and modelYear populated and nothing else
C10_WmiLookup ==
    /\ \A i \in DOMAIN call.queries :
        call.queries[i].op = "getWMI" => call.queries[i].args = <<ExpectedWmi(CleanVin)>>
    /\ Done /\ Len(call.queries) >= 1 /\ call.thrown = Null
            /\ ExecGetWMI(ExpectedWmi(CleanVin)) = None =>
        /\ ErrorsWith(ErrorCode.WMI_NOT_FOUND) = {Len(Errors)}
        /\ Errors[Len(Errors)].category = ErrorCategory.LOOKUP
        /\ Errors[Len(Errors)].severity = ErrorSeverity.ERROR
        /\ Errors[Len(Errors)].searchKey = ExpectedWmi(CleanVin)
        /\ ~call.result.valid
        /\ Populated = {"checkDigit", "modelYear"}
        /\ QueryOps = <<"getWMI">>

\* an extended, six-character code that storage does not know
C10_Witness ==
    /\ Done
    /\ CleanVin = UnknownExtended
    /\ ErrorsWith(ErrorCode.WMI_NOT_FOUND) # {}
    /\ Errors[Len(Errors)].searchKey = <<"1", "H", "9", "0", "9", "4">>

\* C11: when pattern resolution returns an empty list, decode() ends with
\* NO_PATTERNS_FOUND (PATTERN, error) and valid = false; wmi, modelYear
\* and checkDigit are populated, vds, vis, vehicle, plant and engine are not
C11_NoPatterns ==
    Done /\ call.resolved /\ call.matches = <<>> =>
        /\ ErrorsWith(ErrorCode.NO_PATTERNS_FOUND) = {Len(Errors)}
        /\ Errors[Len(Errors)].category = ErrorCategory.PATTERN
        /\ Errors[Len(Errors)].severity = ErrorSeverity.ERROR
        /\ ~call.result.valid
        /\ Populated = {"checkDigit", "modelYear", "wmi"}

\* rows were resolved, and none passed the confidence filter
C11_Witness ==
    /\ Done
    /\ call.resolved
    /\ Len(call.rawMatches) > 0
    /\ call.matches = <<>>
    /\ ErrorsWith(ErrorCode.NO_PATTERNS_FOUND) # {}

\* the pattern is made of literal characters only
Literal(tokens) == \A i \in DOMAIN tokens : tokens[i] \in {<<"A">>, <<"B">>, <<"9">>}

InUnit(x) == 0 <= x /\ x <= ConfScale

\* C12: calculateConfidence returns a value in [0,1] for every pattern and
\* input, 1.0 for a fully literal pattern that matches the input, and 0 for a
\* pattern that matchesPattern rejects; every match of a decode result and
\* the result's mean confidence therefore lie in [0,1]
C12_ConfidenceRange ==
    /\ fnIn # None /\ fnOut # None =>
          /\ InUnit(fnOut.confidence)
          /\ (Literal(fnIn.tokens) /\ fnOut.matches => fnOut.confidence = ConfScale)
          /\ (~fnOut.matches => fnOut.confidence = 0)
    /\ Done /\ call.outcome = "returned" =>
          /\ \A i \in DOMAIN call.matches : InUnit(call.matches[i].confidence)
          /\ call.result.patterns # None =>
                \A i \in DOMAIN call.result.patterns.list :
                    InUnit(call.result.patterns.list[i].confidence)
          /\ 0 <= call.result.metadata.confidence.num
          /\ call.result.metadata.confidence.num
                <= ConfScale * call.result.metadata.confidence.den

C12_Witness ==
    /\ fnIn # None /\ fnOut # None
    /\ Literal(fnIn.tokens) /\ Flatten(fnIn.tokens) = fnIn.input /\ Len(fnIn.input) = 5
    /\ fnOut.matches /\ fnOut.confidence = ConfScale

\* the characters a class of PatternTokens lists or spans
ClassMembers(token) ==
    IF token = <<"[","A","-","E","]">> THEN {"A", "B", "C", "D", "E"}
    ELSE IF token = <<"[","1","3","]">> THEN {"1", "3"}
    ELSE IF token = <<"[","1","-","4","6","]">> THEN {"1", "2", "3", "4", "6"}
    ELSE {}

\* every bracket of the pattern is closed
WellFormed(tokens) == \A i \in DOMAIN tokens : tokens[i] # <<"[">>

\* pattern units against input characters, one unit per character
RECURSIVE LockStep(_, _)
LockStep(tokens, input) ==
    IF tokens = <<>> THEN TRUE
    ELSE IF input = <<>> THEN tokens = <<<<"*">>>>
    ELSE IF Head(tokens) = <<"*">>
    THEN Len(tokens) = 1 \/ LockStep(Tail(tokens), Tail(input))
    ELSE IF Len(Head(tokens)) > 1
    THEN Head(input) \in ClassMembers(Head(tokens)) /\ LockStep(Tail(tokens), Tail(input))
    ELSE Head(input) = Head(tokens)[1] /\ LockStep(Tail(tokens), Tail(input))

\* C13: matchesSimplePattern walks pattern and input in lock-step (a class
\* takes one listed or spanned character, a last '*' takes what remains, any
\* other '*' takes one character, a literal takes itself) and is true exactly
\* when the pattern is consumed or only a trailing '*' is left
C13_LockStep ==
    fnIn # None /\ fnOut # None =>
        /\ WellFormed(fnIn.tokens) => (fnOut.simple <=> LockStep(fnIn.tokens, fnIn.input))
        /\ fnIn.tokens = <<<<"[","A","-","E","]">>>> =>
              /\ fnIn.input = <<"B">> => fnOut.simple
              /\ fnIn.input = <<"F">> => ~fnOut.simple
        /\ Flatten(fnIn.tokens) = <<"*","*","*","*","9">>
              /\ fnIn.input = <<"1","2","3","4","5">> => ~fnOut.simple

C13_Witness ==
    /\ fnIn # None /\ fnOut # None
    /\ fnIn.tokens = <<<<"*">>, <<"[","A","-","E","]">>, <<"*">>>>
    /\ fnIn.input = <<"F", "B">>
    /\ fnOut.simple

\* the threshold the caller asked for: the option when supplied, else 0.5
RequestedThreshold ==
    IF call.options.confidenceThreshold = NoNumber THEN ConfScale \div 2
    ELSE CHOOSE t \in call.options.confidenceThreshold : TRUE

MeanBelow(t) == SumConfidence(call.matches) < t * Len(call.matches)

\* C14: after a non-empty resolution decode() appends LOW_CONFIDENCE_PATTERNS,
\* a warning, exactly when the mean confidence of the matches is below
\* options.confidenceThreshold (0.5 when not supplied); the warning leaves the
\* result valid when every other error is a warning
C14_LowConfidenceWarning ==
    Done /\ call.outcome = "returned" /\ call.resolved /\ Len(call.matches) > 0 =>
        /\ ErrorsWith(ErrorCode.LOW_CONFIDENCE_PATTERNS) # {} <=> MeanBelow(RequestedThreshold)
        /\ \A i \in ErrorsWith(ErrorCode.LOW_CONFIDENCE_PATTERNS) :
              Errors[i].severity = ErrorSeverity.WARNING
        /\ (\A i \in DOMAIN Errors \ ErrorsWith(ErrorCode.LOW_CONFIDENCE_PATTERNS) :
                Errors[i].severity = ErrorSeverity.WARNING) => call.result.valid

\* the getDecoder calls that resolved to a decoder
Resolved ==
    {t \in DOMAIN tasks : /\ tasks[t].kind = "getDecoder" /\ tasks[t].pc = "done"
                          /\ tasks[t].instance # NoNumber}

\* C15: every getDecoder() call, overlapping ones included, resolves to the
\* same VINDecoderWrapper, and getDecoder invokes createDecoder at most once
C15_SharedInstance ==
    /\ \A t, u \in Resolved : tasks[t].instance = tasks[u].instance
    /\ Cardinality({t \in DOMAIN tasks : tasks[t].kind = "getDecoder" /\ tasks[t].created}) <= 1

\* the options of the call name a database of the caller's
Explicit(task) == task.config.databasePath \notin {Null, ""}

\* the step is the call of getDatabasePath by task t
PathCalled(t) == tasks[t].pc = "idle" /\ tasks'[t].created

\* C16: getDatabasePath returns an explicit databasePath unchanged and leaves
\* the cache alone; otherwise it returns the cache path without copying when
\* the cache file exists and forceFresh is not set; otherwise it copies or
\* decompresses the database into the cache and returns the cache path, the
\* cache file then staying in place for later calls; with no source database
\* file it fails with an error
C16_DatabasePath ==
    [][\A t \in DOMAIN tasks :
          /\ PathCalled(t) /\ Explicit(tasks'[t]) =>
                /\ tasks'[t].pc = "resolved"
                /\ tasks'[t].path = tasks'[t].config.databasePath
                /\ tasks'[t].wrote = Null
                /\ fs' = fs
          /\ PathCalled(t) /\ ~Explicit(tasks'[t])
                /\ fs.cache # "absent" /\ ~tasks'[t].config.forceFresh =>
                /\ tasks'[t].pc = "resolved"
                /\ tasks'[t].path = CACHE_DB_PATH
                /\ tasks'[t].wrote = Null
                /\ fs' = fs
          /\ PathCalled(t) /\ ~Explicit(tasks'[t])
                /\ (fs.cache = "absent" \/ tasks'[t].config.forceFresh) =>
                IF fs.uncompressed \/ fs.compressed
                THEN /\ tasks'[t].pc = "opening"
                     /\ tasks'[t].wrote \in {"copyFile", "decompressDatabase"}
                ELSE /\ tasks'[t].pc = "done"
                     /\ tasks'[t].error # Null
                     /\ tasks'[t].path = Null
          /\ tasks[t].pc = "copying" /\ tasks'[t].pc = "resolved" =>
                /\ tasks'[t].path = CACHE_DB_PATH
                /\ \/ fs'.cache = "complete"
                   \/ \E u \in DOMAIN tasks : u # t /\ tasks[u].pc = "copying"
          /\ fs.cache # "absent" => fs'.cache # "absent"]_vars

\* a first run fills the cache and a later call without forceFresh reuses it
C16_Witness ==
    \E t, u \in DOMAIN tasks :
        /\ tasks[t].created /\ tasks[t].cacheAtCall = "absent"
        /\ tasks[t].wrote = "decompressDatabase" /\ tasks[t].path = CACHE_DB_PATH
        /\ tasks[u].created /\ tasks[u].cacheAtCall = "complete"
        /\ ~tasks[u].config.forceFresh /\ tasks[u].config.databasePath = Null
        /\ tasks[u].wrote = Null /\ tasks[u].path = CACHE_DB_PATH

\* the element names of the database that contain 'plant'
PlantNames == {"Plant Country", "Plant City"}

\* the bar a row of the resolver has to pass: 0.3 for plant rows, 0.5 otherwise
MeetsBar(m) ==
    IF m.element \in PlantNames THEN 10 * m.confidence > 3 * ConfScale
    ELSE 10 * m.confidence > 5 * ConfScale

SameKey(m, n) ==
    /\ m.element = n.element /\ m.value = n.value
    /\ m.positions = n.positions /\ m.schema = n.schema

\* C17: every match getPatternMatches returns is above its bar (0.3 for an
\* element with 'plant' in its name, 0.5 otherwise), and every resolved row
\* above its bar is returned, itself or as the duplicate that replaced it
C17_ConfidenceBars ==
    Done /\ call.resolved =>
        /\ \A i \in DOMAIN call.matches : MeetsBar(call.matches[i])
        /\ \A i \in DOMAIN call.rawMatches :
              MeetsBar(call.rawMatches[i]) =>
                  \E j \in DOMAIN call.matches : SameKey(call.matches[j], call.rawMatches[i])

C17_Witness ==
    /\ Done /\ call.resolved
    /\ \E i \in DOMAIN call.matches :
          /\ call.matches[i].element \in PlantNames
          /\ 10 * call.matches[i].confidence <= 5 * ConfScale
    /\ \E i \in DOMAIN call.rawMatches :
          /\ call.rawMatches[i].element \notin PlantNames
          /\ ~MeetsBar(call.rawMatches[i])
    /\ \E i \in DOMAIN call.matches : call.matches[i].element \notin PlantNames

\* the Model rows of the resolver's rows, each scored against VDS + VIS
ModelRows == {i \in DOMAIN call.rawMatches : call.rawMatches[i].element = "Model"}

ModelScore(i) == calculateConfidence(call.rawMatches[i].rawPattern, SubSeq(CleanVin, 4, 17))

\* the schema of the highest-confidence Model row, the first of equals
PrimaryOf ==
    call.rawMatches[CHOOSE i \in ModelRows :
                        \A j \in ModelRows :
                            \/ ModelScore(j) < ModelScore(i)
                            \/ ModelScore(j) = ModelScore(i) /\ i <= j].schema

\* the confidence of a row before the plant adjustment
BaseConfidence(m) ==
    IF HasPipe(m.rawPattern) THEN calculateConfidence(m.rawPattern, <<CleanVin[11]>>)
    ELSE calculateConfidence(m.rawPattern, SubSeq(CleanVin, 4, 17))

\* C18: a plant row keeps its base confidence when its schema is the primary
\* schema and gets 0 when it is another schema, so the plant matches returned
\* all belong to the primary schema; without a primary schema (no Model row)
\* a plant row gets half its base confidence
C18_PlantSchema ==
    Done /\ call.resolved =>
        /\ \A i \in DOMAIN call.rawMatches :
              LET m == call.rawMatches[i]
              IN  m.element \in PlantNames =>
                      IF ModelRows # {}
                      THEN m.confidence = IF m.schema = PrimaryOf THEN BaseConfidence(m) ELSE 0
                      ELSE 2 * m.confidence = BaseConfidence(m)
        /\ ModelRows # {} =>
              \A i \in DOMAIN call.matches :
                  call.matches[i].element \in PlantNames => call.matches[i].schema = PrimaryOf

C18_Witness ==
    /\ Done /\ call.resolved /\ ModelRows # {}
    /\ \E i \in DOMAIN call.rawMatches :
          /\ call.rawMatches[i].element \in PlantNames
          /\ call.rawMatches[i].schema # PrimaryOf
          /\ BaseConfidence(call.rawMatches[i]) > 0
          /\ call.rawMatches[i].confidence = 0
    /\ \E i \in DOMAIN call.matches :
          call.matches[i].element \in PlantNames /\ call.matches[i].schema = PrimaryOf

\* a ranks at least as high as b inside an element group
RanksNoLower(a, b) ==
    \/ a.elementWeight > b.elementWeight
    \/ a.elementWeight = b.elementWeight /\ a.confidence >= b.confidence

\* first position of an element in a list of matches
FirstOf(ms, element) ==
    CHOOSE i \in DOMAIN ms : ms[i].element = element /\ \A j \in 1..(i - 1) : ms[j].element # element

Survivors == SelectSeq(call.rawMatches, MeetsBar)

\* C19: in the list getPatternMatches returns the matches of one element are
\* contiguous and ordered by elementWeight, then confidence, both descending;
\* no two of them share (value, positions, schema) and the one kept ranks
\* highest among its duplicates; the groups follow the order in which their
\* first surviving rows appeared
C19_GroupOrder ==
    Done /\ call.resolved =>
        LET ms == call.matches
        IN  /\ \A i, j, k \in DOMAIN ms :
                  i < j /\ j < k /\ ms[i].element = ms[k].element => ms[j].element = ms[i].element
            /\ \A i, j \in DOMAIN ms :
                  i < j /\ ms[i].element = ms[j].element =>
                      RanksNoLower(ms[i], ms[j]) /\ ~SameKey(ms[i], ms[j])
            /\ \A i \in DOMAIN ms, j \in DOMAIN Survivors :
                  SameKey(ms[i], Survivors[j]) => RanksNoLower(ms[i], Survivors[j])
            /\ \A i, j \in DOMAIN ms :
                  FirstOf(ms, ms[i].element) < FirstOf(ms, ms[j].element)
                      <=> FirstOf(Survivors, ms[i].element) < FirstOf(Survivors, ms[j].element)

C19_Witness ==
    /\ Done /\ call.resolved
    /\ \E i, j \in DOMAIN Survivors :
          /\ i < j /\ SameKey(Survivors[i], Survivors[j])
          /\ Survivors[i].confidence < Survivors[j].confidence
    /\ \E i, j \in DOMAIN call.matches :
          /\ i < j /\ call.matches[i].element = call.matches[j].element
          /\ call.matches[i].elementWeight > call.matches[j].elementWeight
          /\ call.matches[i].confidence < call.matches[j].confidence
    /\ Len(call.matches) < Len(Survivors)

\* the row of PatternTable a resolved row was made from
RowOf(m) ==
    CHOOSE i \in DOMAIN PatternTable :
        /\ PatternTable[i].Pattern = m.rawPattern
        /\ PatternTable[i].ElementName = m.element
        /\ PatternTable[i].LookupTable = m.lookupTable
        /\ SchemaNameOf(PatternTable[i].VinSchemaId) = m.schema

\* C20: when the query of a lookup table fails, or the table has no entry for
\* an attribute id, the rows concerned take the raw attribute id as value;
\* the other tables are still resolved, the resolver returns, and the result
\* carries no error of category database
C20_LookupFallback ==
    Done /\ call.warned # <<>> =>
        /\ call.resolved /\ call.outcome = "returned"
        /\ \A i \in DOMAIN Errors : Errors[i].category # ErrorCategory.DATABASE
        /\ \A i \in DOMAIN call.rawMatches :
              LET m == call.rawMatches[i]
                  id == PatternTable[RowOf(m)].AttributeId
              IN  m.lookupTable \in LOOKUP_TABLES =>
                      m.value = IF /\ m.lookupTable \notin Range(call.warned)
                                   /\ m.lookupTable \in DOMAIN LookupData
                                   /\ id \in DOMAIN LookupData[m.lookupTable]
                                THEN LookupData[m.lookupTable][id]
                                ELSE id

C20_Witness ==
    /\ Done /\ call.warned # <<>> /\ call.resolved
    /\ \E i, j \in DOMAIN call.rawMatches :
          /\ call.rawMatches[i].lookupTable \in Range(call.warned)
          /\ call.rawMatches[i].value = PatternTable[RowOf(call.rawMatches[i])].AttributeId
          /\ call.rawMatches[j].lookupTable \in LOOKUP_TABLES \ Range(call.warned)
          /\ call.rawMatches[j].value # PatternTable[RowOf(call.rawMatches[j])].AttributeId

\* the number of input characters a pattern takes: one for a literal, one
\* for a '*', one for a whole [...] class
RECURSIVE UnitCount(_)
UnitCount(p) ==
    IF p = <<>> THEN 0
    ELSE IF Head(p) = "[" /\ FirstIndexFrom(p, "]", 1) # 0
    THEN 1 + UnitCount(SubSeq(p, FirstIndexFrom(p, "]", 1) + 1, Len(p)))
    ELSE 1 + UnitCount(Tail(p))

\* C21: the positions of a match are the VIN indices its pattern covers:
\* consecutive from index 3 for a VDS pattern and from index 9 for a VIS
\* pattern, one per character the pattern takes, none for the '|' and what
\* follows it, and all of them in 0..16
C21_Positions ==
    Done /\ call.resolved =>
        \A i \in DOMAIN call.matches :
            LET m == call.matches[i]
                start == IF m.patternType = "VIS" THEN 9 ELSE 3
            IN  /\ m.positions = [k \in 1..UnitCount(ActualPattern(m.rawPattern)) |-> start + k - 1]
                /\ \A k \in DOMAIN m.positions : m.positions[k] \in 0..16

\* C22: when the match list holds a 'Fuel Type - Secondary' match with a
\* value, vehicle.fuelType is 'Hybrid', whatever other fuel-type matches the
\* list holds
C22_SecondaryFuelHybrid ==
    Done /\ call.outcome = "returned" /\ call.resolved /\ Len(call.matches) > 0 =>
        ((\E i \in DOMAIN call.matches :
              /\ call.matches[i].element = "Fuel Type - Secondary"
              /\ call.matches[i].value \notin {Null, ""})
            => call.result.components.vehicle.fuelType = "Hybrid")

\* C23: a negative confidenceThreshold is not used: the warning is decided
\* against the default 0.5, and the result is valid when it has no error
\* other than warnings
C23_InvalidThreshold ==
    /\ Done /\ call.outcome = "returned" /\ call.resolved /\ Len(call.matches) > 0
    /\ \E t \in call.options.confidenceThreshold : t < 0
    => /\ ErrorsWith(ErrorCode.LOW_CONFIDENCE_PATTERNS) # {} <=> MeanBelow(ConfScale \div 2)
       /\ OnlyWarnings => call.result.valid


\* the call run alone on a new decoder against the same database: every
\* query misses the cache and is answered by the database
RECURSIVE AloneLookups(_, _)
AloneLookups(c, rows) ==
    LET tableName == Head(c.tables)
        known == tableName \in DOMAIN LookupData
        lookupMap == IF known THEN ExecLookup(tableName, c.pending.key[3]) ELSE EmptyCache
        resolved == ApplyLookup(rows, tableName, lookupMap)
        c1 == [c EXCEPT !.tables = Tail(@),
                        !.warned = IF known THEN @ ELSE Append(@, tableName)]
    IN  IF c1.tables = <<>> THEN ResolveAndFinish(c1, resolved, HasPerformanceNow)
        ELSE AloneLookups(IssueLookup(c1, resolved, EmptyCache), resolved)

RunAlone(v, o) ==
    LET c0 == DecodeBegin(v, o, currentYear, EmptyCache, HasPerformanceNow)
        c1 == IF c0.pc # "getWMI" THEN c0
              ELSE AfterGetWMI(c0, ExecGetWMI(c0.wmi), EmptyCache, HasPerformanceNow)
        c2 == IF c1.pc # "getValidSchemas" THEN c1
              ELSE AfterGetValidSchemas(c1, ExecGetValidSchemas(c1.wmi, c1.modelYear.year),
                                        EmptyCache, HasPerformanceNow)
        rows == SetRawValues(ExecGetPatterns(c2.patternsKey[2]))
        c3 == IF c2.pc # "getPatterns" THEN c2
              ELSE AfterGetPatterns(c2, rows, EmptyCache, HasPerformanceNow)
    IN  IF c3.pc # "lookupValues" THEN c3 ELSE AloneLookups(c3, rows)

\* no query of the call failed for a reason that is not in the database
NoTransientFailure ==
    /\ call.thrown = Null
    /\ \A i \in DOMAIN call.warned : call.warned[i] \notin DOMAIN LookupData

\* C24: a decode call that overlaps another call on the same decoder returns
\* the DecodeResult it returns when run alone against the same database
C24_OverlapIndependent ==
    Done /\ NoTransientFailure =>
        /\ call.outcome = RunAlone(call.vin, call.options).outcome
        /\ call.result = RunAlone(call.vin, call.options).result

\* C25: on every exit path of decode() the processing time is the difference
\* of two readings of the same clock
C25_SameClock ==
    Done /\ call.outcome = "returned" =>
        call.result.metadata.processingTime.start = call.result.metadata.processingTime.end

\* the positions of the errors of the result that are not warnings
Terminal == {i \in DOMAIN Errors : Errors[i].severity # ErrorSeverity.WARNING}

\* C26: a DecodeResult holds at most one error that is not a warning, and
\* that error is the last element of errors
C26_OneTerminalError ==
    Done /\ call.outcome = "returned" =>
        /\ Cardinality(Terminal) <= 1
        /\ \A i \in Terminal : i = Len(Errors)

C26_Witness ==
    /\ Done /\ call.outcome = "returned"
    /\ Len(Errors) >= 2
    /\ Terminal = {Len(Errors)}

\* the cache of the VPICDatabase object that answers a query
CacheFor(key, d, p) == IF key[1] = "getWMI" THEN d ELSE p

QueryStates == {"getWMI", "getValidSchemas", "getPatterns", "lookupValues"}

\* C27: a query is answered from the cache, without adapter.exec, exactly
\* when an identical query was executed with success (rows or no rows) since
\* the last clearCache(); an execution that throws caches nothing and its
\* error is rethrown
C27_QueryCache ==
    [][LET issues == Len(call'.queries) > Len(call.queries)
           settles == call.pc \in QueryStates /\ (issues \/ call'.pc = "done")
           failed == settles /\ (call'.thrown # Null \/ call'.warned # call.warned)
           clears == call.pc = "idle" /\ call'.pc = "idle"
       IN  /\ issues =>
                LET q == call'.pending
                    cache == CacheFor(q.key, dbCache', pmCache')
                IN  /\ q.hit <=> q.key \in DOMAIN cache
                    /\ q.hit => q.value = cache[q.key]
           /\ settles /\ ~failed =>
                call.pending.key \in DOMAIN CacheFor(call.pending.key, dbCache', pmCache')
           /\ failed =>
                /\ ~call.pending.hit
                /\ DOMAIN dbCache' = DOMAIN dbCache
                /\ DOMAIN pmCache' = DOMAIN pmCache
                /\ call.pending.key \notin DOMAIN CacheFor(call.pending.key, dbCache', pmCache')
                /\ call.pc # "lookupValues" => call'.thrown \in FailureMessages
           /\ ~clears =>
                /\ DOMAIN dbCache \subseteq DOMAIN dbCache'
                /\ DOMAIN pmCache \subseteq DOMAIN pmCache'
           /\ clears =>
                \/ dbCache' = EmptyCache /\ pmCache' = pmCache
                \/ pmCache' = EmptyCache /\ dbCache' = dbCache
      ]_vars

\* a query with no rows answered from the cache, the other cache cleared
C27_Witness ==
    /\ call.pc \in QueryStates
    /\ call.pending.hit
    /\ IF call.pc = "getWMI" THEN call.pending.value = None
       ELSE DOMAIN call.pending.value = {}
    /\ dbCache = EmptyCache \/ pmCache = EmptyCache

\* no returned match is of an element with 'plant' in its name
PlantFree == \A i \in DOMAIN call.matches : ~IsPlantElement(call.matches[i].element)

\* C28: with the default threshold, a decode whose returned matches hold no
\* plant element carries no LOW_CONFIDENCE_PATTERNS warning: every match,
\* and so the mean, is above 0.5
C28_NoWarningWithoutPlant ==
    /\ Done /\ call.outcome = "returned" /\ call.resolved /\ Len(call.matches) > 0
    /\ call.options.confidenceThreshold = NoNumber
    /\ PlantFree
    => /\ ErrorsWith(ErrorCode.LOW_CONFIDENCE_PATTERNS) = {}
       /\ \A i \in DOMAIN call.matches : 2 * call.matches[i].confidence > ConfScale
       /\ ~MeanBelow(ConfScale \div 2)
       /\ 2 * SumConfidence(call.matches) > ConfScale * Len(call.matches)

C28_Witness ==
    /\ Done /\ call.outcome = "returned" /\ call.resolved /\ Len(call.matches) > 0
    /\ call.options.confidenceThreshold = NoNumber
    /\ PlantFree
    /\ \E i \in DOMAIN call.matches : call.matches[i].confidence < ConfScale

\* C29: metadata.matchedSchema, when set, is the primary schema the resolver
\* chose from its Model rows and used to gate the plant rows
C29_MatchedSchema ==
    Done /\ call.outcome = "returned" /\ call.resolved
         /\ call.result.metadata.matchedSchema # Null
    => ModelRows # {} /\ call.result.metadata.matchedSchema = PrimaryOf

\* C30: getDatabasePath returns the cache path without writing the cache
\* only when the cache file holds a complete copy of the database
C30_CompleteCache ==
    [][\A t \in DOMAIN tasks :
          /\ PathCalled(t) /\ ~Explicit(tasks'[t])
          /\ tasks'[t].pc = "resolved" /\ tasks'[t].path = CACHE_DB_PATH
          => fs.cache = "complete"]_vars
====
